---- MODULE Spec2Model ----
(***************************************************************************)
(* A model of the undou state-tracking engine (packages/undou/src/undou.ts,*)
(* here src/unnamed/part_002) on top of immer's drafts and patches.        *)
(*                                                                         *)
(* An engine is the closure of one undou() call: source, proxiedValue,     *)
(* draft, draftCacheKey, pendingPromise and isDirty, plus the wrappers     *)
(* (Proxy objects) it has handed out.  Every operation of the engine is a  *)
(* pure operator from an engine record to an engine record; the actions    *)
(* apply them for a client that reads .value, writes through wrappers,     *)
(* reassigns the root, commits, replays patches and forks.                 *)
(*                                                                         *)
(* Values are plain trees: numbers, undefined, and objects.  The root      *)
(* object has the keys RootKeys, a nested object the key "a".              *)
(***************************************************************************)
EXTENDS Integers, Sequences, FiniteSets, TLC

\* ------------------------------------------------------------------ bounds
MaxVal == 1            \* numbers written by the client are 0..MaxVal
MaxGen == 3            \* operations that bump draftCacheKey stop at this value
MaxQueue == 2          \* deferred callbacks queued at one time (per engine)
MaxSyncGen == 6        \* the same as MaxGen for an engine that commits at once or early
MaxLen == 3            \* arrays grow to this length

\* ------------------------------------------------------------------ values
RootKeys == <<"foo", "bar">>
RootKeySet == {"foo", "bar"}
Nums == 0..MaxVal

NoVal == [t |-> "none"]
Undef == [t |-> "undef"]
Err == [t |-> "error"]
Num(n) == [t |-> "num", n |-> n]
\* sh: the members foo and bar are one and the same object (reference equality)
Obj(f) == [t |-> "obj", f |-> f, sh |-> FALSE]
Leaf(n) == Obj([k \in {"a"} |-> Num(n)])
\* an array of numbers (and undefined); s[i + 1] is the element at index i
Arr(s) == [t |-> "arr", s |-> s]
\* the index i as it stands in a patch path
Idx(i) == <<"0", "1", "2", "3">>[i + 1]

IsObj(v) == v.t = "obj"
Has(v, k) == IsObj(v) /\ k \in DOMAIN v.f
Get(v, k) == IF Has(v, k) THEN v.f[k] ELSE Undef
Put(v, k, x) == [v EXCEPT !.f = [j \in (DOMAIN v.f) \cup {k} |-> IF j = k THEN x ELSE v.f[j]]]
Del(v, k) == [v EXCEPT !.f = [j \in (DOMAIN v.f) \ {k} |-> v.f[j]]]
Unshare(v) == IF IsObj(v) THEN [v EXCEPT !.sh = FALSE] ELSE v
\* structural equality (toEqual): reference sharing is not part of the value
SameVal(x, y) == Unshare(x) = Unshare(y)

\* ------------------------------------------------------------------ patches
Patch(op, path, value) == [op |-> op, path |-> path, value |-> value]

\* immer applyPatchesImpl, one patch on a draft of v: the path is resolved
\* through objects only (die(18) otherwise); the value of add/replace is
\* deep-cloned, so it is a new reference.
ApplyPatch(v, p) ==
  IF v = Err THEN Err
  ELSE IF Len(p.path) = 0 THEN (IF p.op = "replace" THEN p.value ELSE Err)
  ELSE IF ~IsObj(v) THEN Err
  ELSE IF Len(p.path) = 1 THEN
    LET k == p.path[1] IN
    IF p.op = "remove" THEN Unshare(Del(v, k))
    ELSE IF Has(v, k) /\ ~IsObj(p.value) /\ v.f[k] = p.value THEN v
    ELSE Unshare(Put(v, k, Unshare(p.value)))
  ELSE
    LET k == p.path[1]
        a == p.path[2]
        sub == Get(v, k) IN
    IF ~IsObj(sub) THEN Err
    ELSE IF p.op = "remove" THEN
      (IF Has(sub, a) THEN Unshare(Put(v, k, Del(sub, a))) ELSE v)
    ELSE IF Has(sub, a) /\ sub.f[a] = p.value THEN v
    ELSE Unshare(Put(v, k, Put(sub, a, p.value)))

RECURSIVE ApplyAll(_, _)
ApplyAll(v, ps) == IF ps = <<>> THEN v ELSE ApplyAll(ApplyPatch(v, Head(ps)), Tail(ps))

\* immer applyPatches: the last root replacement becomes the base, the patches
\* after it are applied inside produce (all or nothing: Err leaves v alone).
LastRootReplace(ps) ==
  LET I == {i \in 1..Len(ps) : ps[i].path = <<>> /\ ps[i].op = "replace"} IN
  IF I = {} THEN 0 ELSE CHOOSE i \in I : \A j \in I : j <= i

applyPatches(v, ps) ==
  LET i == LastRootReplace(ps) IN
  IF i = 0 THEN ApplyAll(v, ps) ELSE ApplyAll(ps[i].value, SubSeq(ps, i + 1, Len(ps)))

\* ------------------------------------------------------------------ immer drafts
\* A draft of a root object: copy holds, per root key, what the draft's copy_
\* holds there (abs: no such key; val: a number or a plain object assigned by
\* the client; kid: the child draft created from base[o]); asg is assigned_
\* in insertion order (<<key, TRUE>> set, <<key, FALSE>> deleted); kids are the
\* child drafts, one per root key whose base value is an object.
AbsSlot == [k |-> "abs", v |-> NoVal, o |-> ""]
ValSlot(v) == [k |-> "val", v |-> v, o |-> ""]
KidSlot(o) == [k |-> "kid", v |-> NoVal, o |-> o]
\* xkid: a child draft of the other engine's live draft, assigned into this
\* one; okid: a child draft of a draft this engine dropped, assigned into the
\* live one (v: what that draft holds now); akid: the child draft of the
\* array under foo (arr: its modified_, copy_ and the indices in assigned_)
NoArr == [mod |-> FALSE, copy |-> <<>>, asg |-> {}]
NoDraft == [on |-> FALSE, copy |-> <<>>, asg |-> <<>>, kids |-> <<>>, arr |-> NoArr]

createDraft(base) ==
  [on |-> TRUE,
   copy |-> [k \in RootKeySet |->
              IF ~Has(base, k) THEN AbsSlot
              ELSE IF IsObj(base.f[k]) THEN KidSlot(k)
              ELSE IF base.f[k].t = "arr" /\ k = "foo" THEN [k |-> "akid", v |-> NoVal, o |-> "foo"]
              ELSE ValSlot(base.f[k])],
   asg |-> <<>>,
   kids |-> [k \in RootKeySet |->
              IF Has(base, k) /\ IsObj(base.f[k])
              THEN [mod |-> FALSE,
                    a |-> IF Has(base.f[k], "a") THEN ValSlot(base.f[k].f["a"]) ELSE AbsSlot,
                    asg |-> "unset"]
              ELSE [mod |-> FALSE, a |-> AbsSlot, asg |-> "unset"]],
   arr |-> IF Has(base, "foo") /\ base.f["foo"].t = "arr"
           THEN [mod |-> FALSE, copy |-> base.f["foo"].s, asg |-> {}]
           ELSE NoArr]

AsgKeys(asg) == {asg[i][1] : i \in 1..Len(asg)}
AsgPut(asg, k, flag) ==
  IF k \in AsgKeys(asg)
  THEN [i \in 1..Len(asg) |-> IF asg[i][1] = k THEN <<k, flag>> ELSE asg[i]]
  ELSE Append(asg, <<k, flag>>)
AsgRemove(asg, k) == SelectSeq(asg, LAMBDA e : e[1] # k)

\* objectTraps.set on the root draft: assigning the value that is already there
\* (the same number, the same child draft) changes nothing; a plain object
\* from the client is always a new reference.
DraftSet(d, k, slot) ==
  IF d.copy[k] = slot /\ ~(slot.k = "val" /\ IsObj(slot.v)) THEN d
  ELSE [d EXCEPT !.copy[k] = slot, !.asg = AsgPut(d.asg, k, TRUE)]

\* objectTraps.deleteProperty on the root draft
DraftDelete(d, base, k) ==
  [d EXCEPT !.copy[k] = AbsSlot,
            !.asg = IF Has(base, k) THEN AsgPut(d.asg, k, FALSE) ELSE AsgRemove(d.asg, k)]

\* the same two traps on the child draft made from base[o], for its key "a"
KidSet(d, o, n) ==
  IF d.kids[o].a = ValSlot(Num(n)) THEN d
  ELSE [d EXCEPT !.kids[o] = [mod |-> TRUE, a |-> ValSlot(Num(n)), asg |-> "set"]]

KidDelete(d, base, o) ==
  IF Has(base.f[o], "a")
  THEN [d EXCEPT !.kids[o] = [mod |-> TRUE, a |-> AbsSlot, asg |-> "del"]]
  ELSE [d EXCEPT !.kids[o].a = AbsSlot, !.kids[o].asg = "unset"]

\* ------------------------------------------------------------------ finishDraft
\* finalize of a child draft: unmodified, the base object itself; else its copy
KidValue(d, base, o) ==
  IF ~d.kids[o].mod THEN base.f[o]
  ELSE IF d.kids[o].a.k = "abs" THEN Obj([j \in {} |-> NoVal]) ELSE Obj([j \in {"a"} |-> d.kids[o].a.v])

\* objectTraps.set on the array draft, prop an index i <= length
ArrSetIndex(a, i, v) ==
  LET cur == IF i < Len(a.copy) THEN a.copy[i + 1] ELSE Undef
      same == cur = v /\ (v # Undef \/ i < Len(a.copy)) IN
  IF same THEN a
  ELSE [mod |-> TRUE,
        copy |-> IF i < Len(a.copy) THEN [a.copy EXCEPT ![i + 1] = v] ELSE Append(a.copy, v),
        asg |-> a.asg \cup {i}]

\* objectTraps.set on the array draft, prop "length", n at most length
ArrSetLength(a, n) ==
  IF n = Len(a.copy) THEN a
  ELSE [a EXCEPT !.mod = TRUE, !.copy = SubSeq(a.copy, 1, n)]

\* generateArrayPatches without the change of roles for a shorter copy_
ArrayPatches_roles_kept(base, a, path) ==
  LET shrink == Len(a.copy) < Len(base)
      lo == IF shrink THEN a.copy ELSE base
      hi == IF shrink THEN base ELSE a.copy
      m == Len(hi) - Len(lo)
  IN [j \in 1..m |->
        <<Patch("add", Append(path, Idx(Len(lo) + j - 1)), hi[Len(lo) + j]),
          Patch("remove", Append(path, Idx(Len(hi) - j)), NoVal)>>]

\* generateArrayPatches: the shorter of base_ and copy_ taken as the base,
\* replaced indices, then added indices (removals last index first); the two
\* lists change roles when copy_ is the shorter one
ArrayPatches(base, a, path) ==
  LET shrink == Len(a.copy) < Len(base)
      lo == IF shrink THEN a.copy ELSE base
      hi == IF shrink THEN base ELSE a.copy
      R == {i \in 0..(Len(lo) - 1) : i \in a.asg /\ lo[i + 1] # hi[i + 1]}
      ToSeq(S) == [j \in 1..Cardinality(S) |->
                     CHOOSE i \in S : Cardinality({x \in S : x < i}) = j - 1]
      rs == ToSeq(R)
      replaced == [j \in 1..Len(rs) |->
                     <<Patch("replace", Append(path, Idx(rs[j])), a.copy[rs[j] + 1]),
                       Patch("replace", Append(path, Idx(rs[j])), base[rs[j] + 1])>>]
      m == Len(hi) - Len(lo)
      grown == [j \in 1..m |->
                  LET add == Patch("add", Append(path, Idx(Len(lo) + j - 1)), hi[Len(lo) + j])
                      rem == Patch("remove", Append(path, Idx(Len(hi) - j)), NoVal) IN
                  IF shrink THEN <<rem, add>> ELSE <<add, rem>>]
  IN replaced \o grown

SlotValue(d, base, k) ==
  IF d.copy[k].k = "kid" THEN KidValue(d, base, d.copy[k].o)
  ELSE IF d.copy[k].k = "akid" THEN (IF d.arr.mod THEN Arr(d.arr.copy) ELSE base.f[k])
  ELSE d.copy[k].v

\* the finalized root: the keys of the copy, children finalized
DraftValue(d, base) ==
  LET ks == {k \in RootKeySet : d.copy[k].k # "abs"}
      f == d.copy["foo"]
      b == d.copy["bar"]
      shared == /\ f.k = "kid" /\ b.k = "kid"
                /\ \/ f.o = b.o
                   \/ ~d.kids[f.o].mod /\ ~d.kids[b.o].mod /\ base.sh
  IN [t |-> "obj", f |-> [k \in ks |-> SlotValue(d, base, k)], sh |-> shared]

\* generatePatchesFromAssigned for the child draft o, reached under root key k
KidPatches(d, base, o, k) ==
  LET kid == d.kids[o]
      orig == Get(base.f[o], "a")
      path == <<k, "a">> IN
  IF ~kid.mod \/ kid.asg = "unset" THEN <<>>
  ELSE IF kid.asg = "del"
    THEN << <<Patch("remove", path, NoVal), Patch("add", path, orig)>> >>
  ELSE IF ~Has(base.f[o], "a")
    THEN << <<Patch("add", path, kid.a.v), Patch("remove", path, NoVal)>> >>
  ELSE IF orig = kid.a.v THEN <<>>
  ELSE << <<Patch("replace", path, kid.a.v), Patch("replace", path, orig)>> >>

\* finalize visits the root keys in order; a child draft is finalized at its
\* first visit, and writes its patches only if that visit is under a key that
\* is not in assigned_ (finalizeProperty: "skip deep patches for assigned keys").
FirstVisit(d, o) ==
  LET I == {i \in 1..Len(RootKeys) : d.copy[RootKeys[i]] = KidSlot(o)} IN
  IF I = {} THEN "" ELSE RootKeys[CHOOSE i \in I : \A j \in I : i <= j]

DeepPatches(d, base, k) ==
  LET s == d.copy[k] IN
  IF s.k = "kid" /\ FirstVisit(d, s.o) = k /\ k \notin AsgKeys(d.asg)
  THEN KidPatches(d, base, s.o, k)
  ELSE IF s.k = "akid" /\ d.arr.mod /\ k \notin AsgKeys(d.asg)
  THEN ArrayPatches(base.f[k].s, d.arr, <<k>>)
  ELSE <<>>

\* origValue === value for the root key k
SameRef(d, base, k) ==
  LET s == d.copy[k] IN
  /\ Has(base, k)
  /\ \/ s.k = "val" /\ ~IsObj(s.v) /\ base.f[k] = s.v
     \/ s.k = "kid" /\ ~d.kids[s.o].mod /\ (s.o = k \/ base.sh)

\* generatePatchesFromAssigned for the root draft, one assigned_ entry
RootPatch(d, base, e) ==
  LET k == e[1]
      path == <<k>>
      orig == Get(base, k)
      value == SlotValue(d, base, k) IN
  IF ~e[2] THEN << <<Patch("remove", path, NoVal), Patch("add", path, orig)>> >>
  ELSE IF ~Has(base, k) THEN << <<Patch("add", path, value), Patch("remove", path, NoVal)>> >>
  ELSE IF SameRef(d, base, k) THEN <<>>
  ELSE << <<Patch("replace", path, value), Patch("replace", path, orig)>> >>

RECURSIVE RootPatches(_, _, _)
RootPatches(d, base, asg) ==
  IF asg = <<>> THEN <<>>
  ELSE RootPatch(d, base, Head(asg)) \o RootPatches(d, base, Tail(asg))

\* pairs <<patch, inverse patch>> in the order immer pushes them
PatchPairs(d, base) ==
  DeepPatches(d, base, RootKeys[1]) \o DeepPatches(d, base, RootKeys[2])
    \o RootPatches(d, base, d.asg)


\* finishDraft(draft, patchListener): the next snapshot and what the listener gets
finishDraft(d, base) ==
  [result |-> DraftValue(d, base),
   patches |-> [i \in 1..Len(PatchPairs(d, base)) |-> PatchPairs(d, base)[i][1]],
   inversePatches |-> [i \in 1..Len(PatchPairs(d, base)) |-> PatchPairs(d, base)[i][2]]]

\* produce(source, _ => newVal, patchListener): a replacement of the root,
\* generateReplacementPatches_ writes one pair with path []
produce(base, newVal) ==
  [result |-> newVal,
   patches |-> <<Patch("replace", <<>>, newVal)>>,
   inversePatches |-> <<Patch("replace", <<>>, base)>>]

\* ------------------------------------------------------------------ the engine
\* The closure of one undou() call.  Besides the variables of the closure:
\*   queue   the deferred callbacks (Promise.resolve().then) not yet run;
\*   ctx     the cache of the current root wrapper: per key the ProxyCatch
\*           of the nested wrapper (key: the generation its closure holds,
\*           st/o: the child draft its closure holds in `value`; born: the
\*           generation in which the wrapper was made);
\*   held    a nested wrapper the client keeps in a variable (linked: it is
\*           the one cached in ctx[prop]; pcatched: the catchedDraft of its
\*           root wrapper once that wrapper is stale; v: the content of the
\*           dropped draft its accessor yields; st "raw": it is no wrapper
\*           but the plain object a read returned, of the draft of generation
\*           key; fresh: no write to prop through the root wrapper and no
\*           replacement of the root since the client read it);
\*   stale   a root wrapper the client keeps from before the root was
\*           replaced (catched: its catchedDraft);
\*   out     the listener's record: n, how often it was called during the
\*           latest operation; the lists and the snapshots of the latest call;
\*   lost    the latest operation dropped a draft whose writes a commit
\*           would have reported (no effect on the engine);
\*   dead    the variable draft holds a draft immer has finished (revoked):
\*           every access to it throws a TypeError;
\*   sync    the scheduler the caller passed is commit => commit();
\*   leak    the key of the snapshot under which a commit left a child of a
\*           dropped draft (immer does not finalize a draft of another
\*           scope), "" if there is none;
\*   burst   what the client did to the array since the last commit: one
\*           operation (op, its value x, its index i), or "many";
\*   cap     the generation up to which the engine is followed;
\*   undoStack, redoStack   the two stacks of the undo/redo page, whose
\*           listener keeps every notification ({direct, inverse});
\*   globalListeners, pathSubscribers   the Set and the Map of Sets of the
\*           Vue store made around the engine (a path with no Set: {});
\*   reg, gone   what each callback was registered for ("all" or a path),
\*           and the callbacks whose unsubscribe function has been called;
\*   calls   per callback, the (patches, inversePatches) it was called with
\*           during the latest operation.
\* A reference to a draft is "cur" (of the engine's live draft), "orphan" (of a
\* draft dropped by setSource, still usable) or "revoked" (finished by immer).
NoCache == [has |-> FALSE, key |-> 0, st |-> "none", o |-> "", born |-> 0]
NoCtx == [k \in RootKeySet |-> NoCache]
NoHeld == [has |-> FALSE, prop |-> "", linked |-> FALSE, enable |-> FALSE,
           key |-> 0, st |-> "none", o |-> "", pcatched |-> "none", instale |-> FALSE,
           v |-> NoVal, fresh |-> FALSE]
NoOut == [n |-> 0, patches |-> <<>>, inversePatches |-> <<>>, before |-> NoVal, after |-> NoVal]

NoBurst == [op |-> "none", x |-> NoVal, i |-> 0]
\* the callbacks a client of the Vue store has, the paths it subscribes to
\* (keys joined by "."), and a callback's record of the calls it got
Callbacks == {"c1", "c2"}
StorePaths == {"foo", "bar", "foo.a", "foo.1", "foo.2"}
NoCalls == [c \in Callbacks |-> <<>>]

\* the closure undou() sets up, with the handle (immerRoot) it returns
NewEngine(source) ==
  [alive |-> TRUE, source |-> source, proxiedValue |-> "INVALID", draft |-> NoDraft,
   draftCacheKey |-> 0, pendingPromise |-> FALSE, isDirty |-> FALSE, queue |-> 0,
   ctx |-> NoCtx, held |-> NoHeld, stale |-> [has |-> FALSE, catched |-> "none"], out |-> NoOut,
   lost |-> FALSE, dead |-> FALSE, sync |-> FALSE, leak |-> "", burst |-> NoBurst,
   cap |-> MaxGen, undoStack |-> <<>>, redoStack |-> <<>>,
   globalListeners |-> {}, pathSubscribers |-> [p \in StorePaths |-> {}],
   reg |-> [c \in Callbacks |-> ""], gone |-> {}, calls |-> NoCalls]

\* no engine: none was constructed, or the constructor threw
NoEngine == [NewEngine(Undef) EXCEPT !.alive = FALSE]

\* the handle of engine e as a value: an object whose [STATE_SYMBOL] is true.
\* A wrapper (t = "wrapper", the Proxy state.value returns) is an object too;
\* its get handler passes STATE_SYMBOL on to the draft, which has no such key.
Handle(e) == [t |-> "handle", e |-> e]
StateSymbol(value) == IF value.t = "handle" THEN "true" ELSE "undefined"
isObject(value) == value.t \in {"obj", "handle", "wrapper"}
isUndou(value) == isObject(value) /\ StateSymbol(value) = "true"

\* undou without the isUndou test
undou_unguarded(source) == NewEngine(source)

undou(source) == IF isUndou(source) THEN NoEngine ELSE NewEngine(source)

\* undou(source, patchListener, commit => commit())
undouSync(source) == [undou(source) EXCEPT !.sync = TRUE]

\* the engines of the system (the closures undou() has set up, by name) and
\* the last operation of the client
VARIABLES eng, ev

\* the wrapper around the caller's listener: empty lists are not passed on
patchListener(s, r) ==
  IF r.patches = <<>> /\ r.inversePatches = <<>> THEN s
  ELSE [s EXCEPT !.out = [n |-> s.out.n + 1, patches |-> r.patches,
                          inversePatches |-> r.inversePatches,
                          before |-> s.source, after |-> r.result]]

\* the default scheduler without the test of pendingPromise
scheduler_unguarded(s) ==
  IF s.sync THEN s ELSE [s EXCEPT !.pendingPromise = TRUE, !.queue = s.queue + 1]

\* the default scheduler with pendingPromise kept at module level, one for
\* every engine, instead of in the closure of each
scheduler_module_promise(s) ==
  IF s.sync \/ (\E x \in DOMAIN eng : eng[x].pendingPromise) THEN s
  ELSE [s EXCEPT !.pendingPromise = TRUE, !.queue = s.queue + 1]

\* the default scheduler: one deferred callback at a time.  The scheduler
\* commit => commit() queues nothing: its commit() is the last step of the
\* handler that called dye(), and the operation runs it (OnBoth)
scheduler(s) ==
  IF s.sync \/ s.pendingPromise THEN s
  ELSE [s EXCEPT !.pendingPromise = TRUE, !.queue = s.queue + 1]

\* what becomes of the references to the live draft when it is finished
\* (revoked) or dropped (orphan)
Retire(s, to) ==
  LET RefTo(st, t2) == IF st = "cur" THEN t2 ELSE st IN
  [s EXCEPT !.ctx = [k \in RootKeySet |-> [s.ctx[k] EXCEPT !.st = RefTo(s.ctx[k].st, to)]],
            !.held.st = RefTo(s.held.st, to),
            !.held.pcatched = RefTo(s.held.pcatched, to),
            !.stale.catched = RefTo(s.stale.catched, to)]

clearDraftCache(s) == [s EXCEPT !.draftCacheKey = s.draftCacheKey + 1]

\* setSource without clearDraftCache()
setSource_keeping_key(s, value) ==
  [Retire(s, "orphan") EXCEPT !.source = value, !.draft = NoDraft]

setSource(s, value) ==
  LET dropped == s.draft.on /\ PatchPairs(s.draft, s.source) # <<>>
      s1 == Retire(s, "orphan") IN
  clearDraftCache([s1 EXCEPT !.source = value, !.draft = NoDraft, !.lost = s.lost \/ dropped])

\* commit without the isDirty test of its guard
commit_ignoring_dirty(s) ==
  IF ~s.draft.on THEN s
  ELSE LET r == finishDraft(s.draft, s.source)
           s1 == patchListener(Retire(s, "revoked"), r)
           s2 == setSource([s1 EXCEPT !.draft = NoDraft], r.result)
       IN [clearDraftCache(s2) EXCEPT !.isDirty = FALSE]

\* leak: the key under which the draft holds a child of a dropped draft
commit(s) ==
  IF ~s.isDirty \/ ~s.draft.on \/ s.dead THEN s
  ELSE LET r == finishDraft(s.draft, s.source)
           s1 == patchListener(Retire(s, "revoked"), r)
           s2 == setSource([s1 EXCEPT !.draft = NoDraft], r.result)
           K == {k \in RootKeySet : s.draft.copy[k].k = "okid"}
       IN [clearDraftCache(s2) EXCEPT !.isDirty = FALSE, !.burst = NoBurst,
                                      !.leak = IF K = {} THEN "" ELSE CHOOSE k \in K : TRUE]

\* commit() with a listener that throws when it is called: immer calls the
\* listener inside finishDraft, after it has revoked the draft; the exception
\* leaves commit before setSource, clearDraftCache and isDirty = false
commitThrowing(s) ==
  IF ~s.isDirty \/ ~s.draft.on \/ s.dead THEN s
  ELSE LET r == finishDraft(s.draft, s.source) IN
       IF r.patches = <<>> /\ r.inversePatches = <<>> THEN commit(s)
       ELSE [patchListener(Retire(s, "revoked"), r) EXCEPT !.dead = TRUE]

\* commit throws: the listener threw, or the draft it is to finish is revoked
commitThrows(s) ==
  /\ s.isDirty /\ s.draft.on
  /\ s.dead \/ finishDraft(s.draft, s.source).patches # <<>>

dye(s) == scheduler([s EXCEPT !.isDirty = TRUE])

initProxy(s) ==
  IF IsObj(s.source)
  THEN [s EXCEPT !.draft = createDraft(s.source), !.proxiedValue = "proxy", !.ctx = NoCtx]
  ELSE [s EXCEPT !.proxiedValue = "scalar"]

\* get value()
getValue(s) == IF s.proxiedValue = "INVALID" THEN initProxy(s) ELSE s

\* proxiedValue = INVALID makes the root wrapper stale.  The client may keep it
\* (keep), and keeps the nested wrapper it holds; the wrapper's cache goes
\* with the wrapper.
Invalidate(s, keep) ==
  IF s.proxiedValue # "proxy" THEN [s EXCEPT !.proxiedValue = "INVALID"]
  ELSE LET catched == IF s.draft.on THEN "cur" ELSE "revoked"
           h == [s.held EXCEPT !.fresh = FALSE]
           c == s.ctx[h.prop]
           h1 == IF h.has /\ h.linked
                 THEN [h EXCEPT !.linked = FALSE, !.enable = TRUE, !.key = c.key,
                                !.st = c.st, !.o = c.o, !.pcatched = catched,
                                !.instale = keep,
                                !.v = IF s.draft.on /\ s.draft.copy[h.prop].k = "kid"
                                      THEN SlotValue(s.draft, s.source, h.prop)
                                      ELSE NoVal]
                 ELSE IF ~h.has THEN h
                 ELSE [h EXCEPT !.instale = IF keep THEN FALSE ELSE h.instale,
                                !.pcatched = IF h.pcatched = "none" THEN catched
                                             ELSE h.pcatched,
                                !.v = IF h.st = "cur" /\ s.draft.on
                                      THEN KidValue(s.draft, s.source, h.o) ELSE h.v]
       IN [s EXCEPT !.proxiedValue = "INVALID", !.ctx = NoCtx, !.held = h1,
                    !.stale = IF keep THEN [has |-> TRUE, catched |-> catched] ELSE s.stale]

\* the value setter without proxiedValue = INVALID
setValue_keeping_wrapper(s, newVal, keep) ==
  LET s2 == patchListener(s, produce(s.source, newVal))
  IN [setSource(s2, newVal) EXCEPT !.isDirty = FALSE]

\* the value setter ending with dye() instead of isDirty = false
setValue_through_scheduler(s, newVal, keep) ==
  LET s1 == Invalidate(s, keep)
      s2 == patchListener(s1, produce(s1.source, newVal))
  IN dye(setSource(s2, newVal))

\* set value(newVal)
setValue(s, newVal, keep) ==
  LET s1 == Invalidate(s, keep)
      s2 == patchListener(s1, produce(s1.source, newVal))
  IN [setSource(s2, newVal) EXCEPT !.isDirty = FALSE]

\* set [STATE_SOURCE](value)
setStateSource(s, value, keep) == setSource(Invalidate(s, keep), value)

\* ------------------------------------------------------------------ wrappers
\* the accessor of the current root wrapper (proxiedValue === theSelf)
RootSubDraft(s) == IF s.draft.on THEN s ELSE [s EXCEPT !.draft = createDraft(s.source)]

clearProxyCatch(s, prop) ==
  LET h == [s.held EXCEPT !.fresh = s.held.fresh /\ s.held.prop # prop] IN
  [s EXCEPT !.ctx[prop] = NoCache,
            !.held = IF h.has /\ h.linked /\ h.prop = prop /\ s.ctx[prop].has
                     THEN [h EXCEPT !.linked = FALSE, !.enable = FALSE,
                                    !.key = s.ctx[prop].key, !.st = s.ctx[prop].st,
                                    !.o = s.ctx[prop].o]
                     ELSE h]

\* createProxy.get building a new wrapper when the generation has changed
get_by_generation(s, prop) ==
  LET s1 == RootSubDraft(s)
      slot == s1.draft.copy[prop] IN
  IF s.dead THEN s
  ELSE IF slot.k \in {"kid", "akid"} /\ (~s1.ctx[prop].has \/ s1.ctx[prop].key # s1.draftCacheKey)
  THEN [s1 EXCEPT !.ctx[prop] = [has |-> TRUE, key |-> s1.draftCacheKey, st |-> "cur", o |-> slot.o,
                                 born |-> s1.draftCacheKey]]
  ELSE s1

\* createProxy.get on the root wrapper: a draft value gets a cached wrapper
get(s, prop) ==
  LET s1 == RootSubDraft(s)
      slot == s1.draft.copy[prop] IN
  IF s.dead THEN s
  ELSE IF slot.k \in {"kid", "akid"} /\ ~s1.ctx[prop].has
  THEN [s1 EXCEPT !.ctx[prop] = [has |-> TRUE, key |-> s1.draftCacheKey, st |-> "cur", o |-> slot.o,
                                 born |-> s1.draftCacheKey]]
  ELSE s1

\* the accessor of the nested wrapper cached at ctx[prop] (enabled): its
\* `value` while the generation is the one it saw, else re-derived
subDraftOf(s, prop) ==
  IF s.ctx[prop].key = s.draftCacheKey THEN s
  ELSE LET s1 == RootSubDraft(s)
           slot == s1.draft.copy[prop] IN
       [s1 EXCEPT !.ctx[prop].key = s1.draftCacheKey,
                  !.ctx[prop].st = IF slot.k \in {"kid", "akid"} THEN "cur" ELSE "plain",
                  !.ctx[prop].o = slot.o]

\* createProxy.set on the root wrapper, value a number or a plain object
set(s, prop, value) ==
  LET s1 == RootSubDraft(clearProxyCatch(s, prop)) IN
  IF s.dead THEN s1
  ELSE dye([s1 EXCEPT !.draft = DraftSet(s1.draft, prop, ValSlot(value))])

\* createProxy.set on the root wrapper, value the wrapper read from key from:
\* value[STATE_DRAFT] is the child draft the wrapper stands for
setWrapper(s, prop, from) ==
  LET s1 == RootSubDraft(subDraftOf(clearProxyCatch(s, prop), from)) IN
  dye([s1 EXCEPT !.draft = DraftSet(s1.draft, prop, KidSlot(s1.ctx[from].o))])

deleteProperty(s, prop) ==
  LET s1 == RootSubDraft(clearProxyCatch(s, prop)) IN
  dye([s1 EXCEPT !.draft = DraftDelete(s1.draft, s1.source, prop)])

\* createProxy.getOwnPropertyDescriptor on the root wrapper: what the value
\* of the descriptor is.  immer's trap builds it from latest(state)[prop],
\* which is the child draft once a read or an assignment has put one there.
getOwnPropertyDescriptor(s, prop) ==
  LET s1 == RootSubDraft(s)
      slot == s1.draft.copy[prop]
      c == s1.ctx[prop] IN
  IF slot.k = "abs" THEN "undefined"
  ELSE IF slot.k \in {"xkid", "okid"} THEN "draft"
  ELSE IF slot.k = "kid" /\ (slot.o # prop \/ s1.draft.kids[slot.o].mod) THEN "draft"
  ELSE IF slot.k \in {"kid", "akid"} /\ c.has /\ c.st = "cur" /\ c.key = s1.draftCacheKey
  THEN "draft"
  ELSE "plain"

\* Reflect.defineProperty and Reflect.setPrototypeOf throw on an immer draft
\* (die(11), die(12)), before dye()
defineProperty(s, prop) == RootSubDraft(clearProxyCatch(s, prop))
setPrototypeOf(s) == RootSubDraft(s)
\* Reflect.preventExtensions(draft) succeeds and changes no value
preventExtensions(s) == dye(RootSubDraft(s))

\* createProxy.set / deleteProperty on the nested wrapper cached at ctx[prop]
nestedSet(s, prop, n) ==
  LET s1 == subDraftOf(s, prop) IN
  IF s.dead THEN s
  ELSE dye([s1 EXCEPT !.draft = KidSet(s1.draft, s1.ctx[prop].o, n)])

nestedDelete(s, prop) ==
  LET s1 == subDraftOf(s, prop) IN
  dye([s1 EXCEPT !.draft = KidDelete(s1.draft, s1.source, s1.ctx[prop].o)])

\* createProxy.set / deleteProperty on the wrapper of the array under foo
\* (prop an index, or "length"); immer's arrayTraps.deleteProperty is
\* set(state, prop, undefined)
arraySet(s, i, v) ==
  LET s1 == subDraftOf(s, "foo") IN
  dye([s1 EXCEPT !.draft.arr = ArrSetIndex(s1.draft.arr, i, v)])

arraySetLength(s, n) ==
  LET s1 == subDraftOf(s, "foo") IN
  dye([s1 EXCEPT !.draft.arr = ArrSetLength(s1.draft.arr, n)])

arrayDelete(s, i) ==
  LET s1 == subDraftOf(s, "foo") IN
  dye([s1 EXCEPT !.draft.arr = ArrSetIndex(s1.draft.arr, i, Undef)])

\* Array.prototype.push and pop with the wrapper as this: the steps of the
\* method go through the handlers one by one
arrayLength(s) == Len(subDraftOf(s, "foo").draft.arr.copy)
push(s, x) ==
  LET len == arrayLength(s) IN arraySetLength(arraySet(s, len, x), len + 1)
pop(s) ==
  LET len == arrayLength(s) IN
  IF len = 0 THEN arraySetLength(s, 0)
  ELSE arraySetLength(arrayDelete(s, len - 1), len - 1)

\* createProxy.set on a nested wrapper that is no longer cached in the current
\* root wrapper (disabled, or its root wrapper is stale): the accessor returns
\* `value`, or re-derives it from the stale root's catchedDraft.  A revoked
\* draft throws.
heldRederives(s) == s.held.enable /\ s.held.key # s.draftCacheKey
heldAccess(s) ==
  IF ~heldRederives(s) THEN s
  ELSE [s EXCEPT !.held.key = s.draftCacheKey,
                 !.held.st = IF s.held.pcatched = "orphan" THEN "orphan" ELSE s.held.st]
heldThrows(s) ==
  IF heldRederives(s) THEN s.held.pcatched # "orphan" ELSE s.held.st # "cur" /\ s.held.st # "orphan"

\* Reflect.set on the child draft of a dropped draft: the live draft sees it
\* where that child draft was assigned into it
orphanSet(s, n) ==
  [s EXCEPT !.held.v = IF s.held.v = NoVal THEN NoVal ELSE Put(s.held.v, "a", Num(n)),
            !.source = IF s.leak = "" THEN s.source
                       ELSE Put(s.source, s.leak, Put(s.source.f[s.leak], "a", Num(n))),
            !.draft = IF ~s.draft.on THEN s.draft
                      ELSE [s.draft EXCEPT !.copy = [k \in RootKeySet |->
                              IF s.draft.copy[k].k = "okid"
                              THEN [s.draft.copy[k] EXCEPT !.v = Put(s.draft.copy[k].v, "a", Num(n))]
                              ELSE s.draft.copy[k]]]]

heldSet(s, n) ==
  LET s1 == heldAccess(s) IN
  IF heldThrows(s) THEN s1
  ELSE IF s1.held.st = "cur"
    THEN dye([s1 EXCEPT !.draft = KidSet(s1.draft, s1.held.o, n)])
  ELSE dye(orphanSet(s1, n))

\* createProxy.set on the root wrapper, value the nested wrapper the client
\* kept from before the root was replaced: value[STATE_DRAFT] is the child of
\* the dropped draft
setHeld(s, prop) ==
  LET s1 == RootSubDraft(heldAccess(clearProxyCatch(s, prop))) IN
  dye([s1 EXCEPT !.draft = DraftSet(s1.draft, prop, [k |-> "okid", v |-> s1.held.v, o |-> ""])])

\* createProxy.set on the current root wrapper, value the nested wrapper w
\* the client keeps: the entry of prop is cleared first (w is disabled if it
\* was the wrapper of prop), then value[STATE_DRAFT], which for a disabled
\* wrapper is the child draft its accessor holds, is stored under prop
setKept(s, prop) ==
  LET s1 == RootSubDraft(clearProxyCatch(s, prop)) IN
  dye([s1 EXCEPT !.draft = DraftSet(s1.draft, prop, KidSlot(s1.held.o))])

\* r.a = n on the plain object r a read returned (createProxy.get returns a
\* value that is no draft as it is): no handler runs.  Once the draft it was
\* assigned into is finished or dropped, the object is frozen or garbage.
heldIsSlot(s) ==
  /\ s.held.st = "raw" /\ s.held.fresh
  /\ s.draft.on /\ s.held.key = s.draftCacheKey
  /\ s.draft.copy[s.held.prop].k = "val"
rawSet(s, n) ==
  IF heldIsSlot(s)
  THEN [s EXCEPT !.draft.copy[s.held.prop] =
                    ValSlot(Put(s.draft.copy[s.held.prop].v, "a", Num(n)))]
  ELSE s

\* createProxy.set on the stale root wrapper: its accessor returns catchedDraft
staleSet(s, prop) ==
  LET h == s.held
      s1 == [s EXCEPT !.held = IF h.has /\ h.instale /\ h.prop = prop
                                THEN [h EXCEPT !.enable = FALSE, !.instale = FALSE] ELSE h]
  IN IF s.stale.catched = "orphan" THEN dye(s1) ELSE s1

\* ------------------------------------------------------------------ patchState, forkState
\* patchState without the commit it starts with
patchState_without_commit(s, patches, keep) ==
  LET r == applyPatches(s.source, patches) IN
  IF r = Err THEN s ELSE setStateSource(s, r, keep)

\* patchState keeping the patches that were applied before one failed
patchState_partly_applied(s, patches, keep) ==
  LET s1 == commit(s)
      r == applyPatches(s1.source, patches)
      h == IF patches = <<>> THEN Err ELSE ApplyPatch(s1.source, Head(patches)) IN
  IF r # Err THEN setStateSource(s1, r, keep)
  ELSE IF h = Err THEN s1 ELSE setStateSource(s1, h, keep)

\* patchState installing the patched snapshot through the value setter
patchState_by_value_setter(s, patches, keep) ==
  LET s1 == commit(s)
      r == applyPatches(s1.source, patches) IN
  IF r = Err THEN s1 ELSE setValue(s1, r, keep)

patchState(s, patches, keep) ==
  LET s1 == commit(s)
      r == applyPatches(s1.source, patches) IN
  IF r = Err THEN s1 ELSE setStateSource(s1, r, keep)

\* forkState without the commit
forkState_without_commit(s) == undou(s.source)

\* forkState handing the scheduler of the source engine on to undou
forkState_with_scheduler(s) == [undou(commit(s).source) EXCEPT !.sync = s.sync]

forkState(s) == undou(commit(s).source)

\* ------------------------------------------------------------------ the system
\* Engine A is made by the caller, engine B by forkState(A) or by undou.  ev
\* names the latest operation and what held just before it.
vars == <<eng, ev>>

Engines == {"A", "B"}
Obj2(x, y) == Obj([k \in RootKeySet |-> IF k = "foo" THEN x ELSE y])
InitSources == {Obj2(Leaf(0), Leaf(0)), Obj2(Leaf(0), Num(0))}
KeyValues == {Num(n) : n \in Nums} \cup {Leaf(n) : n \in Nums}
NewRoots == {Num(0), Undef, Obj2(Leaf(MaxVal), Num(0))}

\* an operation starts: the records of the previous operation are reset (the
\* client can replay the lists of a notification in the very next operation)
Begin(s) == [s EXCEPT !.out = NoOut, !.lost = FALSE, !.calls = NoCalls]
Bounded(s) == s.draftCacheKey <= s.cap /\ s.queue <= MaxQueue

\* the forward patches a commit of s would hand to the listener now
Pending(s) ==
  IF s.isDirty /\ s.draft.on THEN finishDraft(s.draft, s.source).patches ELSE <<>>

\* immer marked the live draft of s modified
Modified(s) ==
  /\ s.draft.on
  /\ \/ s.draft.asg # <<>>
     \/ \E k \in RootKeySet : s.draft.kids[k].mod /\ \E j \in RootKeySet : s.draft.copy[j] = KidSlot(k)
     \/ s.draft.arr.mod

NoEvent == [op |-> "init", e |-> "A", wasDirty |-> FALSE, hadPending |-> FALSE,
            pendP |-> <<>>, src0 |-> NoVal, ps |-> <<>>, mid |-> NoVal, arg |-> NoVal]
CommitOps == {"commit", "micro", "assign", "patch", "fork"}
Event(op, e) ==
  IF op \in CommitOps
  THEN [op |-> op, e |-> e, wasDirty |-> eng[e].isDirty,
        hadPending |-> eng[e].isDirty /\ Modified(eng[e]),
        pendP |-> Pending(eng[e]), src0 |-> eng[e].source, ps |-> <<>>, mid |-> NoVal,
        arg |-> eng[e].burst]
  ELSE IF op = "staleset" \/ (op = "hset" /\ eng[e].held.pcatched # "none")
  THEN [NoEvent EXCEPT !.op = "stale", !.e = e]
  ELSE [NoEvent EXCEPT !.op = "write", !.e = e]

\* A draft of one engine sits in the draft of the other.  The model follows
\* such a state only through writes and reads, not through the commit of it.
Foreign(s) == s.draft.on /\ \E k \in RootKeySet : s.draft.copy[k].k = "xkid"
Tainted == \E e \in Engines : Foreign(eng[e])
Other(e) == IF e = "A" THEN "B" ELSE "A"
\* A child of a dropped draft sits in the live draft or in the snapshot.  The
\* model follows such a state only through writes to that child and through
\* the commit of the draft.
Grafted(s) == s.leak # "" \/ (s.draft.on /\ \E k \in RootKeySet : s.draft.copy[k].k = "okid")

\* The draft of s is revoked: the model follows the operations below only.

Do(op, e, s) ==
  /\ ~Tainted
  /\ eng[e].dead => op \in {"read", "set", "nset", "rawset", "commit", "micro"}
  /\ Grafted(eng[e]) => op = "hset" \/ (eng[e].leak = "" /\ op \in {"commit", "micro"})
  /\ Bounded(s)
  /\ eng' = [x \in Engines |-> IF x = e THEN s ELSE Begin(eng[x])]
  /\ ev' = Event(op, e)

Init ==
  /\ \E src \in InitSources : eng = [e \in Engines |-> IF e = "A" THEN undou(src) ELSE NoEngine]
  /\ ev = NoEvent

\* the root wrapper the client gets from state.value (an object root only)
Root(e) == getValue(Begin(eng[e]))
HasRoot(e) == eng[e].alive /\ IsObj(eng[e].source)
IsKid(s, k) == s.draft.copy[k].k = "kid"

\* state.value
ReadValue(e) == eng[e].alive /\ ~Tainted /\ Do("read", e, Root(e))

\* state.value[k] = v
SetKey(e, k, v) == HasRoot(e) /\ ~Tainted /\ Do("set", e, set(Root(e), k, v))

\* state.value[k] = state.value[k2]
SetAlias(e, k, k2) ==
  /\ HasRoot(e) /\ k # k2 /\ ~Tainted
  /\ LET s == get(Root(e), k2) IN IsKid(s, k2) /\ Do("alias", e, setWrapper(s, k, k2))

\* delete state.value[k]
DeleteKey(e, k) == HasRoot(e) /\ ~Tainted /\ Do("delete", e, deleteProperty(Root(e), k))

\* state.value[k].a = n: through the nested wrapper, or on the plain object
\* the client assigned in this burst
SetNested(e, k, n) ==
  /\ HasRoot(e) /\ ~Tainted
  /\ LET s == get(Root(e), k)
         slot == s.draft.copy[k] IN
     \/ IsKid(s, k) /\ Do("nset", e, nestedSet(s, k, n))
     \/ /\ slot.k = "val" /\ IsObj(slot.v)
        /\ Do("rawset", e, [s EXCEPT !.draft.copy[k] = ValSlot(Put(slot.v, "a", Num(n)))])

\* delete state.value[k].a
DeleteNested(e, k) ==
  /\ HasRoot(e) /\ ~Tainted
  /\ LET s == get(Root(e), k) IN IsKid(s, k) /\ Do("ndelete", e, nestedDelete(s, k))

\* const w = state.value[k]
Hold(e, k) ==
  /\ HasRoot(e) /\ ~Tainted
  /\ LET s == get(Root(e), k) IN
     /\ IsKid(s, k)
     /\ Do("hold", e, [s EXCEPT !.held = [NoHeld EXCEPT !.has = TRUE, !.prop = k,
                                                      !.linked = TRUE, !.enable = TRUE,
                                                      !.fresh = TRUE]])

\* const r = state.value[k], k holding the plain object assigned in this burst
HoldRaw(e, k) ==
  /\ HasRoot(e) /\ ~Tainted
  /\ LET s == get(Root(e), k) IN
     /\ s.draft.copy[k].k = "val" /\ IsObj(s.draft.copy[k].v)
     /\ Do("hold", e, [s EXCEPT !.held = [NoHeld EXCEPT !.has = TRUE, !.prop = k,
                                                      !.st = "raw", !.fresh = TRUE,
                                                      !.key = s.draftCacheKey]])

\* w.a = n
HeldSet(e, n) ==
  /\ eng[e].alive /\ eng[e].held.has /\ ~Tainted
  /\ LET s == Begin(eng[e]) IN
     IF s.held.st = "raw" THEN Do("hset", e, rawSet(s, n))
     ELSE IF s.held.linked THEN Do("hset", e, nestedSet(s, s.held.prop, n))
     ELSE Do("hset", e, heldSet(s, n))

\* old.k = 0, old the root wrapper kept from before a root replacement
StaleSet(e, k) ==
  /\ eng[e].alive /\ eng[e].stale.has /\ ~Tainted
  /\ Do("staleset", e, staleSet(Begin(eng[e]), k))

\* state.value[k] = w, w the nested wrapper kept from before the root was
\* replaced, its accessor yielding a child of the dropped draft
SetHeld(e, k) ==
  /\ HasRoot(e) /\ ~Tainted
  /\ eng[e].held.has /\ ~eng[e].held.linked /\ eng[e].held.pcatched # "none"
  /\ LET s == Root(e) IN
     /\ ~heldThrows(s)
     /\ heldAccess(s).held.st = "orphan" /\ s.held.v # NoVal
     /\ Do("sethold", e, setHeld(s, k))

\* state.value[k] = w, w the nested wrapper of k itself or a disabled nested
\* wrapper, its child draft a child of the live draft
SetKept(e, k) ==
  /\ HasRoot(e) /\ ~Tainted
  /\ eng[e].held.has /\ eng[e].held.st # "raw" /\ eng[e].held.pcatched = "none"
  /\ IF eng[e].held.linked THEN eng[e].held.prop = k /\ eng[e].ctx[k].has /\ eng[e].ctx[k].st = "cur"
                                 /\ eng[e].ctx[k].key = eng[e].draftCacheKey
                            ELSE ~eng[e].held.enable /\ eng[e].held.st = "cur"
  /\ Do("setkept", e, setKept(Root(e), k))

\* w.a = n, w a nested wrapper that is disabled
KeptSet(e, n) ==
  /\ eng[e].alive /\ ~Tainted /\ ~Grafted(eng[e])
  /\ eng[e].held.has /\ eng[e].held.st # "raw" /\ ~eng[e].held.linked /\ ~eng[e].held.enable
  /\ LET s == heldSet(Begin(eng[e]), n) IN
     /\ Bounded(s)
     /\ eng' = [x \in Engines |-> IF x = e THEN s ELSE Begin(eng[x])]
     /\ ev' = [NoEvent EXCEPT !.op = "kset", !.e = e]

\* Object.defineProperty(state.value, k, ..), Object.setPrototypeOf(state.value, ..)
\* and Object.preventExtensions(state.value)
DefineProperty(e, k) == HasRoot(e) /\ ~Tainted /\ Do("define", e, defineProperty(Root(e), k))
SetPrototypeOf(e) == HasRoot(e) /\ ~Tainted /\ Do("setproto", e, setPrototypeOf(Root(e)))
PreventExtensions(e) == HasRoot(e) /\ ~Tainted /\ Do("prevent", e, preventExtensions(Root(e)))

\* state.commit()
Commit(e) == eng[e].alive /\ ~Tainted /\ Do("commit", e, commit(Begin(eng[e])))

\* the deferred callback: commit(); pendingPromise = undefined
RunMicrotask(e) ==
  /\ eng[e].alive /\ eng[e].queue > 0 /\ ~Tainted
  /\ Do("micro", e, [commit(Begin(eng[e])) EXCEPT
                        !.pendingPromise = eng[e].pendingPromise /\ eng[e].dead
                                           /\ commitThrows(eng[e]),
                        !.queue = eng[e].queue - 1])

\* state.commit() and the deferred callback, with a listener that throws
ThrowingCommit(e) ==
  /\ eng[e].alive /\ ~Tainted /\ ~Grafted(eng[e])
  /\ LET s == commitThrowing(Begin(eng[e])) IN
     /\ Bounded(s)
     /\ eng' = [x \in Engines |-> IF x = e THEN s ELSE Begin(eng[x])]
     /\ ev' = [Event("commit", e) EXCEPT !.arg = Err]

ThrowingMicrotask(e) ==
  /\ eng[e].alive /\ eng[e].queue > 0 /\ ~Tainted /\ ~Grafted(eng[e])
  /\ LET s == [commitThrowing(Begin(eng[e])) EXCEPT
                 !.pendingPromise = eng[e].pendingPromise /\ commitThrows(eng[e]),
                 !.queue = eng[e].queue - 1] IN
     /\ Bounded(s)
     /\ eng' = [x \in Engines |-> IF x = e THEN s ELSE Begin(eng[x])]
     /\ ev' = [Event("micro", e) EXCEPT !.arg = Err]

\* state.value = v; keep: the client keeps the root wrapper it had
SetValue(e, v, keep) ==
  /\ eng[e].alive /\ (keep => eng[e].proxiedValue = "proxy") /\ ~Tainted
  /\ ~Grafted(eng[e])
  /\ LET s == setValue(Begin(eng[e]), v, keep) IN
     /\ Bounded(s)
     /\ eng' = [x \in Engines |-> IF x = e THEN s ELSE Begin(eng[x])]
     /\ ev' = [Event("assign", e) EXCEPT !.arg = v]

\* the patch lists a client has at hand: the two lists the listener of engine
\* from has just received, and a list recorded elsewhere
\* a recorded list whose second patch needs an object at foo
DeepChanges ==
  <<Patch("replace", <<"bar">>, Num(MaxVal)), Patch("replace", <<"foo", "a">>, Num(MaxVal))>>
Changes(from) == {eng[from].out.patches, eng[from].out.inversePatches,
                  <<Patch("replace", <<"bar">>, Num(MaxVal))>>}

\* patchState(state, ps); the event keeps the list and the snapshot the commit
\* it forces leaves
PatchState(e, ps, keep) ==
  /\ eng[e].alive /\ (keep => eng[e].proxiedValue = "proxy") /\ ~Tainted
  /\ ~Grafted(eng[e])
  /\ LET s == patchState(Begin(eng[e]), ps, keep) IN
     /\ Bounded(s)
     /\ eng' = [x \in Engines |-> IF x = e THEN s ELSE Begin(eng[x])]
     /\ ev' = [Event("patch", e) EXCEPT !.ps = ps, !.mid = commit(Begin(eng[e])).source]

\* B = forkState(A, listener)
ForkState ==
  /\ ~eng["B"].alive /\ ~Tainted
  /\ LET a == commit(Begin(eng["A"])) IN
     /\ Bounded(a)
     /\ eng' = [eng EXCEPT !["A"] = a, !["B"] = forkState(Begin(eng["A"]))]
     /\ ev' = Event("fork", "A")

\* B = undou(v), v a plain value or the handle of an engine; a throwing call
\* makes no engine
Construct(v) ==
  /\ ~Tainted
  /\ LET b == undou(v) IN
     /\ b.alive => ~eng["B"].alive
     /\ eng' = [x \in Engines |-> IF x = "B" /\ b.alive THEN b ELSE Begin(eng[x])]
     /\ ev' = [NoEvent EXCEPT !.op = "undou", !.e = "B", !.src0 = v]

\* the client that reaches everything through state.value
Ops(e) ==
  \/ ReadValue(e)
  \/ \E k \in RootKeySet, v \in {Num(MaxVal), Leaf(MaxVal)} : SetKey(e, k, v)
  \/ \E k \in RootKeySet, k2 \in RootKeySet : SetAlias(e, k, k2)
  \/ \E k \in RootKeySet : DeleteKey(e, k)
  \/ \E k \in RootKeySet : SetNested(e, k, MaxVal)
  \/ DeleteNested(e, "foo")
  \/ DefineProperty(e, "foo")
  \/ SetPrototypeOf(e)
  \/ PreventExtensions(e)
  \/ Commit(e)
  \/ RunMicrotask(e)
  \/ \E v \in NewRoots : SetValue(e, v, FALSE)
  \/ \E ps \in Changes(e) \cup {DeepChanges} : PatchState(e, ps, FALSE)

Next == Ops("A")

Spec == Init /\ [][Next]_vars

\* the client that also keeps wrappers in variables: a nested wrapper (w) and
\* the root wrapper from before a root replacement (old)
NextWrap ==
  \/ ReadValue("A")
  \/ \E k \in RootKeySet : SetKey("A", k, Num(MaxVal))
  \/ \E n \in Nums : SetNested("A", "foo", n)
  \/ Hold("A", "foo")
  \/ \E n \in Nums : HeldSet("A", n)
  \/ \E k \in RootKeySet : StaleSet("A", k)
  \/ Commit("A")
  \/ RunMicrotask("A")
  \/ \E v \in NewRoots, keep \in BOOLEAN : SetValue("A", v, keep)
  \/ \E ps \in Changes("A"), keep \in BOOLEAN : PatchState("A", ps, keep)

SpecWrap == Init /\ [][NextWrap]_vars

\* engines[e].value[k] = engines[f].value[k2], f the other engine: the set
\* handler unwraps any undou wrapper (isUndouProxy), also another engine's
CrossAlias(e, k, k2) ==
  /\ HasRoot(e) /\ HasRoot(Other(e)) /\ ~Tainted
  /\ LET f == Other(e)
         t == get(getValue(eng[f]), k2)
         t1 == subDraftOf(t, k2)
         s == RootSubDraft(clearProxyCatch(Root(e), k))
         s1 == dye([s EXCEPT !.draft = DraftSet(s.draft, k, [k |-> "xkid", v |-> NoVal, o |-> t1.ctx[k2].o])]) IN
     /\ IsKid(t, k2)
     /\ Bounded(s1)
     /\ eng' = [eng EXCEPT ![e] = s1, ![f] = Begin(t1)]
     /\ ev' = Event("write", e)

\* engines[e].value[k].a = n where key k holds the other engine's child draft
SetForeign(e, k, n) ==
  /\ HasRoot(e) /\ Foreign(eng[e]) /\ eng[e].draft.copy[k].k = "xkid"
  /\ LET f == Other(e)
         s == dye(Begin(eng[e])) IN
     /\ Bounded(s)
     /\ eng' = [eng EXCEPT ![e] = s,
                            ![f] = [Begin(eng[f]) EXCEPT !.draft = KidSet(eng[f].draft, eng[e].draft.copy[k].o, n)]]
     /\ ev' = Event("write", e)

\* Two engines over the same source, A with the default scheduler and B with
\* commit => commit(), and a client that does every operation on both.
InitSync ==
  /\ eng = [e \in Engines |-> IF e = "A" THEN undou(Obj2(Leaf(0), Leaf(0)))
                                        ELSE undouSync(Obj2(Leaf(0), Leaf(0)))]
  /\ ev = NoEvent

OnBoth(a, b) ==
  /\ a.draftCacheKey <= MaxGen /\ a.queue <= MaxQueue
  /\ commit(b).draftCacheKey <= MaxSyncGen
  /\ eng' = [e \in Engines |-> IF e = "A" THEN a ELSE commit(b)]
  /\ ev' = [NoEvent EXCEPT !.op = "both", !.e = "B", !.src0 = eng["B"].source]

BothSetKey(k, v) ==
  /\ HasRoot("A") /\ HasRoot("B")
  /\ OnBoth(set(Root("A"), k, v), set(Root("B"), k, v))

BothDeleteKey(k) ==
  /\ HasRoot("A") /\ HasRoot("B")
  /\ OnBoth(deleteProperty(Root("A"), k), deleteProperty(Root("B"), k))

BothSetNested(k, n) ==
  LET a == get(Root("A"), k)
      b == get(Root("B"), k) IN
  IsKid(a, k) /\ IsKid(b, k) /\ OnBoth(nestedSet(a, k, n), nestedSet(b, k, n))

BothSetAlias(k, k2) ==
  LET a == get(Root("A"), k2)
      b == get(Root("B"), k2) IN
  IsKid(a, k2) /\ IsKid(b, k2) /\ OnBoth(setWrapper(a, k, k2), setWrapper(b, k, k2))

NextSync ==
  \/ \E k \in RootKeySet, n \in Nums : BothSetKey(k, Num(n))
  \/ \E k \in RootKeySet : BothDeleteKey(k)
  \/ \E k \in RootKeySet, n \in Nums : BothSetNested(k, n)
  \/ BothSetAlias("bar", "foo")
  \/ RunMicrotask("A")

SpecSync == InitSync /\ [][NextSync]_vars

\* Two engines with the default scheduler and a client that does every
\* operation first on A and then on B.  The snapshots they are made from are
\* structurally equal; foo and bar may be one object in the one and two
\* objects in the other.  ev.src0 and ev.arg keep the two initial snapshots,
\* ev.mid the operation A has done and B has yet to do.  The listeners'
\* records are not reset: out.n counts the notifications of an engine.
TwinOps ==
  {[op |-> "set", k |-> k, x |-> Num(MaxVal), k2 |-> k] : k \in RootKeySet}
    \cup {[op |-> "alias", k |-> "bar", x |-> NoVal, k2 |-> "foo"]}
    \cup {[op |-> "nset", k |-> k, x |-> Num(MaxVal), k2 |-> k] : k \in RootKeySet}
    \cup {[op |-> "delete", k |-> "foo", x |-> NoVal, k2 |-> "foo"]}
    \cup {[op |-> "commit", k |-> "", x |-> NoVal, k2 |-> ""]}
    \cup {[op |-> "assign", k |-> "", x |-> v, k2 |-> ""] : v \in {Num(0), Obj2(Leaf(MaxVal), Num(0))}}

\* the operation o on the engine s, through state.value for a write
perform(s, o) ==
  IF o.op = "commit" THEN commit(s)
  ELSE IF o.op = "assign" THEN setValue(s, o.x, FALSE)
  ELSE IF ~IsObj(s.source) THEN s
  ELSE IF o.op = "set" THEN set(getValue(s), o.k, o.x)
  ELSE IF o.op = "delete" THEN deleteProperty(getValue(s), o.k)
  ELSE LET s1 == get(getValue(s), o.k2) IN
       IF ~IsKid(s1, o.k2) THEN s1
       ELSE IF o.op = "alias" THEN setWrapper(s1, o.k, o.k2)
       ELSE nestedSet(s1, o.k, o.x.n)

InitTwin ==
  \E X \in {Obj2(Leaf(0), Leaf(0)), [Obj2(Leaf(0), Leaf(0)) EXCEPT !.sh = TRUE]},
     Y \in {Obj2(Leaf(0), Leaf(0)), [Obj2(Leaf(0), Leaf(0)) EXCEPT !.sh = TRUE]} :
    /\ eng = [e \in Engines |-> undou(IF e = "A" THEN X ELSE Y)]
    /\ ev = [NoEvent EXCEPT !.src0 = X, !.arg = Y]

TwinFirst(o) ==
  /\ ev.mid = NoVal /\ eng["A"].queue = eng["B"].queue
  /\ Bounded(perform(eng["A"], o))
  /\ eng' = [eng EXCEPT !["A"] = perform(eng["A"], o)]
  /\ ev' = [ev EXCEPT !.op = "first", !.mid = o]

TwinSecond ==
  /\ ev.mid # NoVal
  /\ eng' = [eng EXCEPT !["B"] = perform(eng["B"], ev.mid)]
  /\ ev' = [ev EXCEPT !.op = "second", !.mid = NoVal]

\* the deferred callback of engine e
TwinMicrotask(e) ==
  /\ ev.mid = NoVal /\ eng[e].queue > 0
  /\ eng' = [eng EXCEPT ![e] = [commit(eng[e]) EXCEPT !.pendingPromise = FALSE,
                                                       !.queue = eng[e].queue - 1]]
  /\ ev' = [ev EXCEPT !.op = "micro", !.e = e]

NextTwin ==
  \/ \E o \in TwinOps : TwinFirst(o)
  \/ TwinSecond
  \/ \E e \in Engines : TwinMicrotask(e)

SpecTwin == InitTwin /\ [][NextTwin]_vars

\* the client of an engine over {foo: [..]}
InitArr ==
  /\ \E s \in {<<Num(0), Num(1), Num(0)>>, <<Num(0), Num(1)>>, <<Num(0)>>, <<>>} :
       eng = [e \in Engines |-> IF e = "A" THEN undou(Obj([k \in {"foo"} |-> Arr(s)]))
                                            ELSE NoEngine]
  /\ ev = NoEvent

Burst(s, op, x, i) ==
  [s EXCEPT !.burst = IF s.burst.op = "none" THEN [op |-> op, x |-> x, i |-> i]
                      ELSE [NoBurst EXCEPT !.op = "many"]]

\* state.value.foo.push(x), state.value.foo.pop(), state.value.foo[i] = x
Push(e, x) ==
  /\ HasRoot(e)
  /\ LET s == get(Root(e), "foo") IN
     /\ arrayLength(s) < MaxLen
     /\ Do("push", e, Burst(push(s, x), "push", x, arrayLength(s)))

Pop(e) ==
  /\ HasRoot(e)
  /\ LET s == get(Root(e), "foo") IN
     Do("pop", e, Burst(pop(s), "pop", NoVal, arrayLength(s) - 1))

SetIndex(e, i, x) ==
  /\ HasRoot(e)
  /\ LET s == get(Root(e), "foo") IN
     /\ i < arrayLength(s)
     /\ Do("iset", e, Burst(arraySet(s, i, x), "set", x, i))

NextArr ==
  \/ ReadValue("A")
  \/ \E x \in Nums : Push("A", Num(x))
  \/ Pop("A")
  \/ \E i \in 0..(MaxLen - 1), x \in Nums : SetIndex("A", i, Num(x))
  \/ Commit("A")
  \/ RunMicrotask("A")

SpecArr == InitArr /\ [][NextArr]_vars

\* the client whose listener throws
NextThrow ==
  \/ ReadValue("A")
  \/ \E k \in RootKeySet, n \in Nums : SetKey("A", k, Num(n))
  \/ \E n \in Nums : SetNested("A", "foo", n)
  \/ Commit("A")
  \/ RunMicrotask("A")
  \/ ThrowingCommit("A")
  \/ ThrowingMicrotask("A")

SpecThrow == Init /\ [][NextThrow]_vars

\* the client that compares what two reads of a key return
NextSame ==
  \/ ReadValue("A")
  \/ \E k \in RootKeySet, v \in KeyValues : SetKey("A", k, v)
  \/ \E k \in RootKeySet, n \in Nums : SetNested("A", k, n)
  \/ \E k \in RootKeySet : DeleteKey("A", k)
  \/ \E k \in RootKeySet : Hold("A", k)
  \/ \E k \in RootKeySet : HoldRaw("A", k)
  \/ \E n \in Nums : HeldSet("A", n)
  \/ Commit("A")
  \/ RunMicrotask("A")

SpecSame == Init /\ [][NextSame]_vars

\* the client that keeps the nested wrapper of foo, assigns or deletes foo,
\* puts the wrapper back under a key and writes through it
NextKept ==
  \/ Hold("A", "foo")
  \/ \E v \in {Num(MaxVal), Leaf(MaxVal)} : SetKey("A", "foo", v)
  \/ DeleteKey("A", "foo")
  \/ \E n \in Nums : SetNested("A", "foo", n)
  \/ SetAlias("A", "bar", "foo")
  \/ \E k \in RootKeySet : SetKept("A", k)
  \/ \E n \in Nums : KeptSet("A", n)
  \/ Commit("A")
  \/ RunMicrotask("A")

SpecKept == Init /\ [][NextKept]_vars

\* the client that keeps wrappers across a replacement of the root
NextStale ==
  \/ ReadValue("A")
  \/ \E n \in Nums : SetKey("A", "bar", Num(n))
  \/ \E k \in RootKeySet, n \in Nums : SetNested("A", k, n)
  \/ Hold("A", "foo")
  \/ \E n \in Nums : HeldSet("A", n)
  \/ \E k \in RootKeySet : StaleSet("A", k)
  \/ SetHeld("A", "bar")
  \/ Commit("A")
  \/ RunMicrotask("A")
  \/ \E v \in NewRoots, keep \in BOOLEAN : SetValue("A", v, keep)

SpecStale == Init /\ [][NextStale]_vars

\* the client of two engines, after B = forkState(A): A writes bar and merges
\* what B reported, B takes a wrapper of A into its own tree
ForkOps(e) ==
  \/ e = "A" /\ SetKey(e, "bar", Num(MaxVal))
  \/ \E n \in Nums : SetNested(e, "foo", n)
  \/ eng["B"].alive /\ Commit(e)
  \/ eng["B"].alive /\ RunMicrotask(e)
  \/ e = "A" /\ eng["B"].alive /\ PatchState(e, eng["B"].out.patches, FALSE)
  \/ e = "B" /\ CrossAlias(e, "bar", "foo")
  \/ e = "B" /\ SetForeign(e, "bar", MaxVal)

NextFork == ForkState \/ \E e \in Engines : ForkOps(e)

InitFork ==
  /\ eng = [e \in Engines |-> IF e = "A" THEN undou(Obj2(Leaf(0), Num(0))) ELSE NoEngine]
  /\ ev = NoEvent

SpecFork == InitFork /\ [][NextFork]_vars

\* Engine A has the scheduler commit => commit(): a write through its wrapper
\* is committed by the handler's dye().  The client forks it and writes
\* through the fork.
SetKeySync(e, k, v) ==
  /\ HasRoot(e) /\ eng[e].sync /\ ~Tainted
  /\ Do("set", e, commit(set(Root(e), k, v)))

InitCustom ==
  /\ eng = [e \in Engines |-> IF e = "A" THEN undouSync(Obj2(Leaf(0), Num(0))) ELSE NoEngine]
  /\ ev = NoEvent

NextCustom ==
  \/ \E n \in Nums : SetKeySync("A", "bar", Num(n))
  \/ ForkState
  \/ \E n \in Nums : SetKey("B", "bar", Num(n))
  \/ \E n \in Nums : SetNested("B", "foo", n)
  \/ \E v \in {Num(0), Obj2(Leaf(MaxVal), Num(0))} : SetValue("B", v, FALSE)
  \/ Commit("B")
  \/ RunMicrotask("B")

SpecCustom == InitCustom /\ [][NextCustom]_vars

\* ------------------------------------------------------------------ undo/redo
\* The listener of the undo/redo page, run on what an operation has handed
\* the engine's listener: push {direct, inverse}, empty the redo stack.
pushHistory(s) ==
  IF s.out.n = 0 THEN s
  ELSE [s EXCEPT !.undoStack = Append(s.undoStack, [direct |-> s.out.patches,
                                                    inverse |-> s.out.inversePatches]),
                 !.redoStack = <<>>]

\* undo(): the entry goes from undoStack to redoStack, then patchState, whose
\* commit calls the listener when the engine is dirty
undo(s) ==
  IF s.undoStack = <<>> THEN s
  ELSE LET patch == s.undoStack[Len(s.undoStack)]
           s1 == [s EXCEPT !.undoStack = SubSeq(s.undoStack, 1, Len(s.undoStack) - 1),
                           !.redoStack = Append(s.redoStack, patch)] IN
       pushHistory(patchState(s1, patch.inverse, FALSE))

redo(s) ==
  IF s.redoStack = <<>> THEN s
  ELSE LET patch == s.redoStack[Len(s.redoStack)]
           s1 == [s EXCEPT !.redoStack = SubSeq(s.redoStack, 1, Len(s.redoStack) - 1),
                           !.undoStack = Append(s.undoStack, patch)] IN
       pushHistory(patchState(s1, patch.direct, FALSE))

\* the event of undo() and redo(): ps is the list handed to patchState (none
\* when the stack was empty), mid the snapshot the commit inside patchState
\* leaves
History(op, e, s, stack) ==
  /\ eng[e].alive /\ ~Tainted /\ Bounded(s)
  /\ eng' = [x \in Engines |-> IF x = e THEN s ELSE Begin(eng[x])]
  /\ ev' = [Event("patch", e) EXCEPT
             !.op = op,
             !.ps = IF stack = <<>> THEN <<>>
                    ELSE IF op = "undo" THEN stack[Len(stack)].inverse
                    ELSE stack[Len(stack)].direct,
             !.mid = commit(Begin(eng[e])).source]

Undo(e) == History("undo", e, undo(Begin(eng[e])), eng[e].undoStack)
Redo(e) == History("redo", e, redo(Begin(eng[e])), eng[e].redoStack)

\* the deferred callback of the page's engine
HistoryMicrotask(e) ==
  /\ eng[e].alive /\ eng[e].queue > 0
  /\ Do("micro", e, pushHistory([commit(Begin(eng[e])) EXCEPT !.pendingPromise = FALSE,
                                                              !.queue = eng[e].queue - 1]))

NextHistory ==
  \/ \E n \in Nums : SetKey("A", "bar", Num(n))
  \/ \E n \in Nums : SetNested("A", "foo", n)
  \/ HistoryMicrotask("A")
  \/ Undo("A")
  \/ Redo("A")

InitHistory ==
  /\ eng = [e \in Engines |-> IF e = "A" THEN [undou(Obj2(Leaf(0), Num(0))) EXCEPT !.cap = MaxSyncGen]
                                        ELSE NoEngine]
  /\ ev = NoEvent

SpecHistory == InitHistory /\ [][NextHistory]_vars

\* ------------------------------------------------------------------ the Vue store
\* partialPath after the first j parts of a patch path
RECURSIVE partialPath(_, _)
partialPath(path, j) ==
  IF j = 1 THEN path[1] ELSE partialPath(path, j - 1) \o "." \o path[j]

\* the listener createSpywareStore passes to undou, run on what an operation
\* has handed the engine's listener: the global listeners get the two lists;
\* per partial path of a patch an entry collects the patch and the inverse
\* patch of the same index, and the subscribers of that path get the entry's
\* two lists
storeListener(s) ==
  LET patches == s.out.patches
      inverse == s.out.inversePatches
      Under(p) == {i \in 1..Len(patches) :
                    \E j \in 1..Len(patches[i].path) : partialPath(patches[i].path, j) = p}
      Pick(q, I) == SelectSeq([i \in 1..Len(q) |-> IF i \in I THEN <<q[i]>> ELSE <<>>],
                              LAMBDA x : x # <<>>)
      Entry(p) == [patches |-> [i \in 1..Cardinality(Under(p)) |-> Pick(patches, Under(p))[i][1]],
                   inversePatches |-> [i \in 1..Cardinality(Under(p)) |-> Pick(inverse, Under(p))[i][1]]]
      \* pathCallbacks is walked in the order its entries were made
      Rank(p) == CHOOSE r \in 1..(3 * Len(patches) + 2) :
                   /\ \E i \in Under(p) : \E j \in 1..Len(patches[i].path) :
                        partialPath(patches[i].path, j) = p /\ r = 3 * i + j - 3
                   /\ \A i \in Under(p) : \A j \in 1..Len(patches[i].path) :
                        partialPath(patches[i].path, j) = p => r <= 3 * i + j - 3
      Hit(c) == {p \in StorePaths : c \in s.pathSubscribers[p] /\ Under(p) # {}}
      Nth(c, k) == CHOOSE p \in Hit(c) : Cardinality({q \in Hit(c) : Rank(q) < Rank(p)}) = k - 1 IN
  IF s.out.n = 0 THEN s
  ELSE [s EXCEPT !.calls = [c \in Callbacks |->
          (IF c \in s.globalListeners
           THEN <<[patches |-> patches, inversePatches |-> inverse]>> ELSE <<>>)
            \o [k \in 1..Cardinality(Hit(c)) |-> Entry(Nth(c, k))]]]

\* store.subscribe(callback) and store.subscribePath(path, callback), callback
\* a function not registered before
subscribe(s, c) ==
  [s EXCEPT !.globalListeners = @ \cup {c}, !.reg[c] = "all"]
subscribePath(s, path, c) ==
  [s EXCEPT !.pathSubscribers[path] = @ \cup {c}, !.reg[c] = path]

\* the unsubscribe function without the delete
unsubscribe_without_delete(s, c) == [s EXCEPT !.gone = @ \cup {c}]

\* the unsubscribe function subscribe or subscribePath returned for c, called
\* by the client or by the disposal of the effect scope it was made in
unsubscribe(s, c) ==
  IF s.reg[c] = "all"
  THEN [s EXCEPT !.globalListeners = @ \ {c}, !.gone = @ \cup {c}]
  ELSE [s EXCEPT !.pathSubscribers[s.reg[c]] = @ \ {c}, !.gone = @ \cup {c}]

Subscribe(e, c) ==
  eng[e].alive /\ eng[e].reg[c] = "" /\ Do("subscribe", e, subscribe(Begin(eng[e]), c))
SubscribePath(e, path, c) ==
  eng[e].alive /\ eng[e].reg[c] = "" /\ Do("subscribe", e, subscribePath(Begin(eng[e]), path, c))
Unsubscribe(e, c) ==
  eng[e].alive /\ eng[e].reg[c] # "" /\ Do("unsubscribe", e, unsubscribe(Begin(eng[e]), c))

\* the deferred callback of the store's engine
StoreMicrotask(e) ==
  /\ eng[e].alive /\ eng[e].queue > 0
  /\ Do("micro", e, storeListener([commit(Begin(eng[e])) EXCEPT !.pendingPromise = FALSE,
                                                               !.queue = eng[e].queue - 1]))

\* store.undou.commit() and store.undou.value = v: the engine calls the
\* store's listener before the call returns
StoreCommit(e) ==
  eng[e].alive /\ Do("commit", e, storeListener(commit(Begin(eng[e]))))
StoreSetValue(e, v) ==
  eng[e].alive /\ Do("assign", e, storeListener(setValue(Begin(eng[e]), v, FALSE)))

InitStore ==
  /\ eng = [e \in Engines |-> IF e = "A" THEN [undou(Obj2(Leaf(0), Num(0))) EXCEPT !.cap = MaxGen + 1]
                                        ELSE NoEngine]
  /\ ev = NoEvent

NextStore ==
  \/ SetKey("A", "bar", Num(MaxVal))
  \/ SetKey("A", "foo", Num(MaxVal))
  \/ SetNested("A", "foo", MaxVal)
  \/ StoreMicrotask("A")
  \/ StoreCommit("A")
  \/ StoreSetValue("A", Obj2(Leaf(MaxVal), Num(0)))
  \/ \E c \in Callbacks : Subscribe("A", c)
  \/ \E c \in Callbacks, p \in {"foo", "bar", "foo.a"} : SubscribePath("A", p, c)
  \/ \E c \in Callbacks : Unsubscribe("A", c)

SpecStore == InitStore /\ [][NextStore]_vars

\* the client of a store whose state holds an array under foo
InitStoreArr ==
  /\ eng = [e \in Engines |-> IF e = "A" THEN undou(Obj([k \in {"foo"} |-> Arr(<<Num(0)>>)]))
                                        ELSE NoEngine]
  /\ ev = NoEvent

NextStoreArr ==
  \/ \E x \in Nums : Push("A", Num(x))
  \/ Pop("A")
  \/ \E i \in 0..(MaxLen - 1), x \in Nums : SetIndex("A", i, Num(x))
  \/ StoreMicrotask("A")
  \/ \E c \in Callbacks, p \in {"foo", "foo.1", "foo.2"} : SubscribePath("A", p, c)
  \/ \E c \in Callbacks : Unsubscribe("A", c)

SpecStoreArr == InitStoreArr /\ [][NextStoreArr]_vars

\* the client that makes engines: by undou over a plain value, over a handle
\* it has or over the root wrapper of an engine, and by forkState

NextMake ==
  \/ ForkState
  \/ \E v \in {Handle(e) : e \in {x \in Engines : eng[x].alive}} \cup {Obj2(Leaf(0), Num(0))}
              \cup {[t |-> "wrapper", e |-> e] : e \in {x \in Engines : eng[x].proxiedValue = "proxy"}} :
       Construct(v)
  \/ \E e \in Engines :
       \/ \E n \in Nums : SetKey(e, "bar", Num(n))
       \/ \E n \in Nums : SetNested(e, "foo", n)
       \/ Commit(e)
       \/ RunMicrotask(e)

SpecMake == InitFork /\ [][NextMake]_vars

\* the client that commits while the deferred commit is pending: by commit(),
\* by patchState and by forkState, and that reassigns the root
InitPend ==
  /\ eng = [e \in Engines |-> IF e = "A" THEN [undou(Obj2(Leaf(0), Num(0))) EXCEPT !.cap = MaxSyncGen]
                                        ELSE NoEngine]
  /\ ev = NoEvent

NextPend ==
  \/ \E n \in Nums : SetKey("A", "bar", Num(n))
  \/ \E n \in Nums : SetNested("A", "foo", n)
  \/ Commit("A")
  \/ RunMicrotask("A")
  \/ PatchState("A", <<Patch("replace", <<"bar">>, Num(MaxVal))>>, FALSE)
  \/ \E v \in {Num(0), Obj2(Leaf(MaxVal), Num(0))} : SetValue("A", v, FALSE)
  \/ ForkState

SpecPend == InitPend /\ [][NextPend]_vars

\* ------------------------------------------------------------------ properties
Applied(v, ps, w) == SameVal(applyPatches(v, ps), w)

\* C1: whenever a listener has just been handed (P, Pinv) for a step from
\* snapshot S0 to snapshot S1, applying P to S0 gives S1 and applying Pinv to
\* S1 gives S0.
RoundTrip ==
  \A e \in Engines : eng[e].out.n > 0 =>
    /\ Applied(eng[e].out.before, eng[e].out.patches, eng[e].out.after)
    /\ Applied(eng[e].out.after, eng[e].out.inversePatches, eng[e].out.before)

\* C2: at most one deferred commit is pending for an engine, and when the
\* deferred callback has run it has notified the listener at most once, with
\* patches that carry the whole step from the snapshot before to the one after.
MicroBatch ==
  \A e \in Engines :
    /\ eng[e].queue <= 1
    /\ eng[e].pendingPromise <=> eng[e].queue = 1
    /\ (ev.op = "micro" /\ ev.e = e) =>
         /\ eng[e].out.n <= 1
         /\ eng[e].out.n = 1 => Applied(ev.src0, eng[e].out.patches, eng[e].source)
         /\ eng[e].out.n = 0 => SameVal(ev.src0, eng[e].source)

\* C3: no operation discards a draft that holds writes without committing them.
NoWriteLost == \A e \in Engines : ~eng[e].lost

\* C6: a commit notifies the listener once if it produced a patch and not at
\* all otherwise, and never when the snapshot it installs is structurally
\* identical to the snapshot it started from.
SilentWhenUnchanged ==
  \A e \in Engines : (ev.op \in CommitOps \ {"assign"} /\ ev.e = e) =>
    /\ eng[e].out.n = (IF ev.pendP # <<>> THEN 1 ELSE 0)
    /\ eng[e].out.n > 0 => ~SameVal(eng[e].out.before, eng[e].out.after)

\* C7: commit() on an engine that is not dirty changes nothing of the engine
\* and does not notify; so does a commit() that directly follows a commit().
CommitNotDirtyNoOp ==
  [][(ev'.op = "commit" /\ (~ev'.wasDirty \/ ev.op = "commit"))
       => eng' = [x \in Engines |-> Begin(eng[x])]]_vars

\* C7 witness: commit() was called on a clean engine that has a root wrapper
\* and a live draft
CommitNotDirtyReached ==
  /\ ev.op = "commit" /\ ~ev.wasDirty
  /\ eng["A"].proxiedValue = "proxy" /\ eng["A"].draft.on /\ eng["A"].draftCacheKey > 0

\* C10: patchState notifies the listener at most once, and only with the
\* patches of the mutations that were pending before the call; on an engine
\* that was not dirty it does not notify.
PatchReplaySilent ==
  \A e \in Engines : (ev.op = "patch" /\ ev.e = e) =>
    \/ eng[e].out.n = 0
    \/ /\ eng[e].out.n = 1 /\ ev.wasDirty /\ ev.pendP # <<>>
       /\ eng[e].out.patches = ev.pendP /\ eng[e].out.before = ev.src0

\* C10 witness: patchState on a clean engine changed the snapshot and the
\* listener was not notified
PatchReplayReached ==
  /\ ev.op = "patch" /\ ~ev.wasDirty /\ eng["A"].out.n = 0
  /\ ~SameVal(ev.src0, eng["A"].source)

\* C4: a dirty engine always has its deferred commit pending, and when the
\* deferred callback has run the engine is not dirty.
DirtyHasPendingCommit ==
  \A e \in Engines :
    /\ eng[e].isDirty => eng[e].pendingPromise
    /\ (ev.op = "micro" /\ ev.e = e) => ~eng[e].isDirty

\* C5: isDirty is false on a fresh engine and false after every commit,
\* explicit, deferred or forced by patchState or forkState.
CleanAfterCommit ==
  \A e \in Engines :
    /\ ev.op = "init" => ~eng[e].isDirty
    /\ (ev.op \in CommitOps \ {"assign"} /\ ev.e = e) => ~eng[e].isDirty

\* C8 as stated: forkState(A) on an engine with pending mutations leaves A
\* clean, has notified A's listener exactly once with the pending patches, and
\* starts the fork from A's snapshot after the commit.
ForkNotifiesOnce ==
  (ev.op = "fork" /\ ev.hadPending) =>
    /\ ~eng["A"].isDirty
    /\ eng["A"].out.n = 1 /\ eng["A"].out.patches = ev.pendP
    /\ eng["B"].source = eng["A"].source

\* C8 amended: forkState(A) on an engine with pending mutations leaves A clean,
\* has notified A's listener once with the pending patches when there are any
\* and not at all when the pending mutations cancel out, and starts the fork
\* from A's snapshot after the commit.
ForkCommitsPending ==
  (ev.op = "fork" /\ ev.hadPending) =>
    /\ ~eng["A"].isDirty
    /\ eng["A"].out.n = (IF ev.pendP # <<>> THEN 1 ELSE 0)
    /\ eng["A"].out.n = 1 => eng["A"].out.patches = ev.pendP /\ eng["A"].out.before = ev.src0
    /\ eng["B"].source = eng["A"].source
    /\ eng["B"] = undou(eng["A"].source)

\* C8 witness: forkState was called with pending patches
ForkCommitsPendingReached ==
  /\ ev.op = "fork" /\ ev.hadPending /\ ev.pendP # <<>>
  /\ eng["A"].out.n = 1 /\ eng["B"].alive /\ eng["B"].source # ev.src0

\* what a client sees of an engine: its snapshot, its dirty flag, what its
\* wrappers read, and the notifications of its listener
Reads(s) == IF s.draft.on THEN DraftValue(s.draft, s.source) ELSE s.source

\* C9: after the fork, an operation on one engine leaves the other engine's
\* snapshot, dirty flag and wrapper reads as they were and does not notify
\* the other engine's listener.
ForkIndependent ==
  [][(ev'.op # "fork" /\ eng[Other(ev'.e)].alive)
       => LET new == eng'[Other(ev'.e)]
              old == Begin(eng[Other(ev'.e)]) IN
          /\ new.source = old.source /\ new.isDirty = old.isDirty
          /\ Reads(new) = Reads(old) /\ new.out = old.out]_vars

\* the value a tree holds at a path (undefined where there is none)
ValueAt(v, path) ==
  IF path = <<>> THEN v
  ELSE IF Len(path) = 1 THEN Get(v, path[1])
  ELSE Get(Get(v, path[1]), path[2])
Related(p, q) ==
  LET Prefix(x, y) == Len(x) <= Len(y) /\ SubSeq(y, 1, Len(x)) = x IN
  Prefix(p, q) \/ Prefix(q, p)
Paths == {<<k>> : k \in RootKeySet} \cup {<<k, "a">> : k \in RootKeySet}
PatchApplies == applyPatches(ev.mid, ev.ps) # Err

\* C11: after a patchState whose patches apply, the snapshot holds, at the
\* path of every patch that no later patch of the list overrides, the value of
\* that patch; holds at every path the list does not touch what the snapshot
\* held after the forced commit of the pending mutations; and is what the
\* next read of .value shows.
PatchMerges ==
  \A e \in Engines : (ev.op = "patch" /\ ev.e = e /\ PatchApplies) =>
    /\ \A i \in 1..Len(ev.ps) :
         (\A j \in (i + 1)..Len(ev.ps) : ~Related(ev.ps[i].path, ev.ps[j].path)) =>
           SameVal(ValueAt(eng[e].source, ev.ps[i].path),
                   IF ev.ps[i].op = "remove" THEN Undef ELSE ev.ps[i].value)
    /\ \A q \in Paths :
         (\A i \in 1..Len(ev.ps) : ~Related(ev.ps[i].path, q)) =>
           ValueAt(eng[e].source, q) = ValueAt(ev.mid, q)
    /\ eng[e].proxiedValue = "INVALID" /\ ~eng[e].draft.on
    /\ Reads(getValue(eng[e])) = eng[e].source

\* C11 witness: engine A, with a pending write of its own, has merged the
\* patches engine B's listener had just received for a nested write
PatchMergesReached ==
  /\ ev.op = "patch" /\ ev.e = "A" /\ ev.wasDirty /\ ev.pendP # <<>>
  /\ ev.ps # <<>> /\ ev.ps[1].path = <<"foo", "a">> /\ PatchApplies
  /\ ~SameVal(ev.src0, ev.mid) /\ ~SameVal(ev.mid, eng["A"].source)
  /\ eng["B"].alive

\* C12: a patchState whose patches do not apply leaves the engine exactly as
\* the commit it forces leaves it: snapshot, generation tag and root wrapper.
PatchFailureAtomic ==
  [][(ev'.op = "patch" /\ applyPatches(ev'.mid, ev'.ps) = Err)
       => eng'[ev'.e] = commit(Begin(eng[ev'.e]))]_vars

\* C12 witness: on a dirty engine with a root wrapper, a list whose first patch
\* applies and whose second does not was given to patchState
PatchFailureReached ==
  /\ ev.op = "patch" /\ ~PatchApplies /\ ev.ps = DeepChanges
  /\ ev.wasDirty /\ ev.pendP # <<>> /\ IsObj(ev.mid)
  /\ Get(ev.mid, "bar") # Num(MaxVal)
  /\ eng["A"].source = ev.mid /\ eng["A"].proxiedValue = "proxy"


\* C13: undou over the handle of an engine (made by undou or by forkState)
\* makes no engine and changes nothing; undou over a plain value makes a fresh
\* engine on it; isUndou is true of the handle of every engine and false of
\* every plain value.
UndouRejectsHandles ==
  [][/\ \A e \in Engines : eng'[e].alive => isUndou(Handle(e))
     /\ \A v \in KeyValues \cup NewRoots \cup InitSources : ~isUndou(v)
     /\ ev'.op = "undou" =>
          IF ev'.src0 \in {Handle(e) : e \in Engines}
          THEN eng' = [x \in Engines |-> Begin(eng[x])]
          ELSE eng'["B"] = NewEngine(ev'.src0) /\ ~eng["B"].alive]_vars

\* C13 witness: undou was called with the handle of engine B, which forkState
\* had returned for a snapshot that is not the initial one
UndouRejectsReached ==
  /\ ev.op = "undou" /\ ev.src0 = Handle("B")
  /\ eng["B"].alive /\ eng["B"].draftCacheKey = 0
  /\ ~SameVal(eng["B"].source, Obj2(Leaf(0), Num(0)))

\* C14: a root reassignment notifies the listener exactly once, with the one
\* pair (replace [] new root, replace [] snapshot before); the root wrapper
\* is invalidated and the next read of .value returns the new root, a wrapper
\* showing it for an object and the value itself otherwise, undefined included.
RootReplaceOnePair ==
  \A e \in Engines : (ev.op = "assign" /\ ev.e = e) =>
    /\ eng[e].out.n = 1
    /\ eng[e].out.patches = <<Patch("replace", <<>>, ev.arg)>>
    /\ eng[e].out.inversePatches = <<Patch("replace", <<>>, ev.src0)>>
    /\ eng[e].source = ev.arg
    /\ eng[e].proxiedValue = "INVALID"
    /\ getValue(eng[e]).proxiedValue = (IF IsObj(ev.arg) THEN "proxy" ELSE "scalar")
    /\ Reads(getValue(eng[e])) = ev.arg

\* C14 witness: the root was undefined and has been reassigned to an object
RootReplaceReached ==
  /\ ev.op = "assign" /\ ev.src0 = Undef /\ IsObj(ev.arg)
  /\ eng["A"].out.n = 1 /\ eng["A"].source = ev.arg

\* what a commit of s now would install and report
NextCommit(s) ==
  IF s.draft.on
  THEN LET r == finishDraft(s.draft, s.source) IN [snapshot |-> r.result, patches |-> r.patches]
  ELSE [snapshot |-> s.source, patches |-> <<>>]

\* C15: a write through a wrapper (root or nested) obtained before the root
\* was reassigned changes nothing of the engine's state: the snapshot, what
\* the current wrappers read, and the snapshot and patches a later commit
\* produces stay as they were, and no listener is called; and after a
\* reassignment the next read of .value builds a new root wrapper.
StaleWritesInert ==
  [][/\ ev'.op = "stale" =>
          /\ eng'[ev'.e].source = eng[ev'.e].source
          /\ Reads(eng'[ev'.e]) = Reads(eng[ev'.e])
          /\ NextCommit(eng'[ev'.e]) = NextCommit(eng[ev'.e])
          /\ eng'[ev'.e].out.n = 0
     /\ ev'.op = "assign" => eng'[ev'.e].proxiedValue = "INVALID"]_vars

\* C16: a second read of a nested container key through the root wrapper,
\* with no write to that key since the first read (writes to fields inside
\* the container allowed), returns the identical reference: the cached
\* nested wrapper, or the plain object still in the draft.
IdentityStable ==
  \A e \in Engines :
    LET s == eng[e] IN
    (s.alive /\ s.held.has /\ s.held.fresh) =>
      IF s.held.st = "raw" THEN heldIsSlot(s)
      ELSE /\ s.held.linked /\ s.ctx[s.held.prop].has
           /\ s.proxiedValue = "proxy"
           /\ get(getValue(s), s.held.prop).draft.copy[s.held.prop].k = "kid"

\* C17: when the listener has thrown during a commit (explicit or deferred),
\* the engine's bookkeeping is updated all the same: isDirty is false, the
\* draft is discarded, the snapshot is the one the listener was told of, and
\* no deferred commit is left pending.
ListenerThrowSafe ==
  \A e \in Engines :
    (ev.e = e /\ ev.op \in {"commit", "micro"} /\ ev.arg = Err /\ eng[e].out.n = 1) =>
      /\ ~eng[e].isDirty
      /\ ~eng[e].draft.on
      /\ eng[e].source = eng[e].out.after
      /\ ~eng[e].dead

\* C18: with the scheduler commit => commit() every operation is committed
\* when it returns (isDirty false, no draft, no deferred callback), the
\* listener is called once by an operation that changes the snapshot, and
\* once the engine with the default scheduler has committed the same
\* operations the two snapshots are equal.
SyncMatchesDefault ==
  /\ ~eng["B"].isDirty /\ ~eng["B"].draft.on
  /\ ~eng["B"].pendingPromise /\ eng["B"].queue = 0
  /\ ev.op = "both" =>
        /\ eng["B"].out.n <= 1
        /\ ~SameVal(eng["B"].source, ev.src0) => eng["B"].out.n = 1
  /\ ~eng["A"].isDirty => SameVal(eng["A"].source, eng["B"].source)

\* C19: the content of a snapshot never changes: the snapshot of an engine
\* differs after a step only if that step installed a new one (commit,
\* explicit or deferred, root reassignment, patchState).
SnapshotsImmutable ==
  [][\A e \in Engines :
       eng'[e].source # eng[e].source => (ev'.e = e /\ ev'.op \in CommitOps)]_vars

\* C20: a burst that appends one element x to the array of length n under foo
\* is committed as add [foo, n] x with inverse remove [foo, n]; a burst that
\* removes the last element of an array of length n + 1 as remove [foo, n]
\* with inverse add [foo, n] and the old element; a burst that overwrites an
\* existing index with another value as a pair of replace patches.  The new
\* snapshot holds the array so changed.
ArrayPatchesPositional ==
  \A e \in Engines :
    (ev.e = e /\ ev.op \in {"commit", "micro"} /\ ev.arg.op # "none") =>
      LET b == ev.arg
          base == ev.src0.f["foo"].s
          now == eng[e].source.f["foo"].s
          n == Len(base)
          o == eng[e].out IN
      /\ b.op = "push" =>
           /\ o.n = 1 /\ now = Append(base, b.x)
           /\ o.patches = <<Patch("add", <<"foo", Idx(n)>>, b.x)>>
           /\ o.inversePatches = <<Patch("remove", <<"foo", Idx(n)>>, NoVal)>>
      /\ (b.op = "pop" /\ n > 0) =>
           /\ o.n = 1 /\ now = SubSeq(base, 1, n - 1)
           /\ o.patches = <<Patch("remove", <<"foo", Idx(n - 1)>>, NoVal)>>
           /\ o.inversePatches = <<Patch("add", <<"foo", Idx(n - 1)>>, base[n])>>
      /\ (b.op = "set" /\ base[b.i + 1] # b.x) =>
           /\ o.n = 1 /\ now = [base EXCEPT ![b.i + 1] = b.x]
           /\ o.patches = <<Patch("replace", <<"foo", Idx(b.i)>>, b.x)>>
           /\ o.inversePatches = <<Patch("replace", <<"foo", Idx(b.i)>>, base[b.i + 1])>>

\* C20 witness: the burst that removed the last element of an array of
\* MaxLen elements has been committed by the deferred callback
ArrayPopReached ==
  /\ ev.op = "micro" /\ ev.arg.op = "pop"
  /\ Len(ev.src0.f["foo"].s) = MaxLen
  /\ eng["A"].out.n = 1 /\ eng["A"].out.patches[1].op = "remove"

\* C21: when key k2 holds the child draft a wrapper read from key k1 stands
\* for, a read through either key shows the same object, and the commit of a
\* changed field a of that object hands the listener a patch for the field
\* under k1 and a replace of k2 with the final object, and no move patch.
AliasCommitsBothPaths ==
  [][\A k1 \in RootKeySet, k2 \in RootKeySet :
       LET s == eng[ev'.e]
           d == s.draft
           P == eng'[ev'.e].out.patches IN
       (/\ ev'.op \in {"commit", "micro"} /\ s.isDirty /\ d.on /\ k1 # k2
        /\ d.copy[k1] = KidSlot(k1) /\ d.copy[k2] = KidSlot(k1)
        /\ <<k2, TRUE>> \in {d.asg[i] : i \in 1..Len(d.asg)}
        /\ d.kids[k1].mod /\ d.kids[k1].a.k = "val"
        /\ Get(s.source.f[k1], "a") # d.kids[k1].a.v)
       => /\ SlotValue(d, s.source, k1) = SlotValue(d, s.source, k2)
          /\ \E i \in 1..Len(P) : /\ P[i].path = <<k1, "a">> /\ P[i].op \in {"replace", "add"}
                                  /\ P[i].value = d.kids[k1].a.v
          /\ \E i \in 1..Len(P) : /\ P[i].path = <<k2>> /\ P[i].op \in {"replace", "add"}
                                  /\ P[i].value = KidValue(d, s.source, k1)
          /\ \A i \in 1..Len(P) : P[i].op # "move"]_vars

\* C22: every write through the wrappers changes what the wrappers read
\* exactly as the same write changes an ordinary mutable object tree (two keys
\* holding one object stay one object), and a commit changes nothing of what
\* they read; so a read after a write returns the written value before and
\* after the commit.
MutableCopyRefined ==
  [][LET V == Reads(eng["A"])
         W == Reads(eng'["A"])
         \* the write of field a (n), or its removal (NoVal), in the object under k
         Field(k, n) ==
           [j \in DOMAIN V.f |->
              IF j = k \/ V.sh
              THEN (IF n = NoVal THEN Del(V.f[j], "a") ELSE Put(V.f[j], "a", n))
              ELSE V.f[j]] IN
     /\ \A k \in RootKeySet, v \in KeyValues :
          SetKey("A", k, v) => W = [Put(V, k, v) EXCEPT !.sh = FALSE]
     /\ \A k \in RootKeySet, k2 \in RootKeySet :
          SetAlias("A", k, k2) => W = [Put(V, k, V.f[k2]) EXCEPT !.sh = TRUE]
     /\ \A k \in RootKeySet :
          DeleteKey("A", k) => W = [Del(V, k) EXCEPT !.sh = FALSE]
     /\ \A k \in RootKeySet, n \in Nums :
          SetNested("A", k, n) => W = [V EXCEPT !.f = Field(k, Num(n))]
     /\ \A k \in RootKeySet :
          DeleteNested("A", k) => W = [V EXCEPT !.f = Field(k, NoVal)]
     /\ (Commit("A") \/ RunMicrotask("A") \/ ReadValue("A")) => W = V]_vars

WritesInvalidateAndDye ==
  [][\A k \in RootKeySet :
       LET s == eng["A"]
           t == eng'["A"]
           P == t.out.patches
           Q == t.out.inversePatches IN
       /\ ((\E v \in KeyValues : SetKey("A", k, v)) \/ (\E k2 \in RootKeySet : SetAlias("A", k, k2))
           \/ DeleteKey("A", k) \/ DefineProperty("A", k))
            => ~t.ctx[k].has /\ t.isDirty
       /\ (ev'.op \in {"commit", "micro"} /\ s.isDirty /\ s.draft.on
           /\ <<k, FALSE>> \in {s.draft.asg[i] : i \in 1..Len(s.draft.asg)})
            => \E i \in 1..Len(P) : /\ P[i] = Patch("remove", <<k>>, NoVal)
                                    /\ Q[i] = Patch("add", <<k>>, s.source.f[k])]_vars

\* C25: a write through a wrapper made before a commit and still cached in the
\* tree (the root wrapper, or the nested wrapper of key k) lands in the live
\* draft at the wrapper's path, leaves the engine dirty, and is among the
\* patches the next commit hands to the listener, at that path.
WrapperSurvivesCommit ==
  [][\A k \in RootKeySet :
       LET s == eng["A"]
           t == eng'["A"]
           P == Pending(t) IN
       /\ \A v \in KeyValues :
            (SetKey("A", k, v) /\ s.proxiedValue = "proxy" /\ ~s.draft.on) =>
              /\ t.isDirty /\ t.draft.on /\ Get(Reads(t), k) = v
              /\ Get(s.source, k) # v =>
                   \E i \in 1..Len(P) : P[i].path = <<k>> /\ P[i].value = v
       /\ \A n \in Nums :
            (/\ SetNested("A", k, n) /\ s.proxiedValue = "proxy"
             /\ s.ctx[k].has /\ s.ctx[k].born < s.draftCacheKey
             /\ IsKid(get(Root("A"), k), k)) =>
              /\ t.isDirty /\ t.draft.on /\ t.ctx[k].born = s.ctx[k].born
              /\ Get(Get(Reads(t), k), "a") = Num(n)
              /\ Get(Get(s.source, k), "a") # Num(n) =>
                   \E i \in 1..Len(P) : P[i].path = <<k, "a">> /\ P[i].value = Num(n)]_vars

\* C26: a commit (explicit, or forced by patchState or forkState) while the
\* deferred commit is pending leaves it pending and queues no second one; a
\* write made afterwards queues none either; the deferred callback then hands
\* the listener exactly the patches of the writes made since that commit,
\* once, relative to the snapshot that commit installed (nothing when there
\* are none), installs them in the snapshot and clears the pending marker.
CommitWhilePending ==
  [][LET s == eng["A"]
         t == eng'["A"] IN
     /\ t.queue <= 1 /\ (t.pendingPromise <=> t.queue = 1)
     /\ (s.pendingPromise /\ ev'.op # "micro") => t.pendingPromise /\ t.queue = s.queue
     /\ (ev'.op \in {"commit", "patch", "fork"} /\ s.pendingPromise) =>
          /\ ~t.isDirty
          /\ t.out.n = (IF ev'.pendP # <<>> THEN 1 ELSE 0)
     /\ ev'.op = "micro" =>
          /\ ~t.pendingPromise /\ t.queue = 0 /\ ~t.isDirty
          /\ t.out.n = (IF ev'.pendP # <<>> THEN 1 ELSE 0)
          /\ t.out.n = 1 => /\ t.out.patches = ev'.pendP /\ t.out.before = s.source
                            /\ Applied(s.source, t.out.patches, t.source)
          /\ t.out.n = 0 => SameVal(t.source, s.source)
          /\ (s.isDirty /\ s.draft.on) => t.source = DraftValue(s.draft, s.source)]_vars

\* C26 witness: a commit() called while the deferred commit was pending has
\* notified the listener and the deferred commit is still pending, the engine
\* clean
CommitWhilePendingReached ==
  /\ ev.op = "commit" /\ ev.pendP # <<>> /\ eng["A"].out.n = 1
  /\ eng["A"].pendingPromise /\ eng["A"].queue = 1 /\ ~eng["A"].isDirty

OneLiveDraft ==
  \A e \in Engines :
    LET s == eng[e] IN
    /\ ~s.draft.on =>
         /\ \A k \in RootKeySet : s.ctx[k].st # "cur"
         /\ s.held.st # "cur" /\ s.held.pcatched # "cur" /\ s.stale.catched # "cur"
    /\ ~Grafted(s)

\* C29: a dirty engine holds a live draft, and a commit() called on a dirty
\* engine leaves it with isDirty false.
DirtyHasDraft ==
  \A e \in Engines :
    /\ eng[e].isDirty => eng[e].draft.on
    /\ (ev.e = e /\ ev.op \in {"commit", "micro"} /\ ev.wasDirty) => ~eng[e].isDirty

\* C30: no draft of one engine sits in the draft of another engine, and the
\* descriptor a wrapper returns for a key never holds a raw draft.
DraftsStayInside ==
  /\ ~Tainted
  /\ \A e \in Engines, k \in RootKeySet :
       (eng[e].alive /\ IsObj(eng[e].source) /\ ~eng[e].dead) =>
         getOwnPropertyDescriptor(eng[e], k) # "draft"

\* C31: undou over a wrapper an engine has handed out makes no engine and
\* changes nothing.
UndouRejectsWrappers ==
  [][(ev'.op = "undou" /\ ev'.src0.t = "wrapper")
       => eng' = [x \in Engines |-> Begin(eng[x])]]_vars

\* C32: a root reassignment is committed by the assignment itself: the
\* listener has the pair for path [] when the setter returns, the engine is
\* not dirty, and the setter queues no deferred commit nor touches
\* pendingPromise.  A write through the wrapper directly after it is not
\* notified by the write itself; it is left dirty on the assigned root with a
\* deferred commit queued, and the deferred callback delivers it as a
\* notification of its own, relative to the assigned root.
RootAssignCommitsAtOnce ==
  [][\A e \in Engines :
       /\ (ev'.op = "assign" /\ ev'.e = e) =>
            /\ eng'[e].out.n = 1
            /\ eng'[e].out.patches = <<Patch("replace", <<>>, ev'.arg)>>
            /\ ~eng'[e].isDirty
            /\ eng'[e].queue = eng[e].queue
            /\ eng'[e].pendingPromise = eng[e].pendingPromise
       /\ (ev.op = "assign" /\ ev.e = e /\ ev'.op = "write" /\ ev'.e = e /\ Modified(eng'[e])) =>
            /\ eng'[e].out.n = 0
            /\ eng'[e].source = ev.arg
            /\ eng'[e].isDirty /\ eng'[e].pendingPromise /\ eng'[e].queue >= 1
            /\ Pending(eng'[e]) # <<>>
       /\ (ev'.op = "micro" /\ ev'.e = e /\ ev'.pendP # <<>>) =>
            /\ eng'[e].out.n = 1
            /\ eng'[e].out.patches = ev'.pendP
            /\ eng'[e].out.before = ev'.src0
            /\ \A i \in DOMAIN ev'.pendP : ev'.pendP[i].path # <<>>]_vars

\* C32 witness: the deferred callback has delivered a write made on the root
\* that a reassignment installed
RootAssignThenWriteReached ==
  /\ ev.op = "micro" /\ eng["A"].out.n = 1
  /\ eng["A"].draftCacheKey = 3
  /\ eng["A"].out.before = Obj2(Leaf(MaxVal), Num(0))
  /\ eng["A"].out.patches = <<Patch("replace", <<"bar">>, Num(MaxVal))>>

UndoRestores ==
  [][\A e \in Engines :
       /\ (ev'.op \in {"commit", "micro", "assign"} /\ ev'.e = e) =>
            IF eng'[e].out.n > 0 THEN eng'[e].out.before = ev'.src0
            ELSE SameVal(eng'[e].source, ev'.src0)
       /\ (ev'.op = "patch" /\ ev'.e = e /\ eng[e].out.n > 0 /\ ev.op \in {"commit", "micro", "assign"}
             /\ ev'.ps = eng[e].out.inversePatches) =>
            SameVal(eng'[e].source, eng[e].out.before)]_vars

\* C35: a write through a nested wrapper the client keeps, after the key it
\* was read from has been assigned or deleted through the root wrapper (the
\* wrapper is disabled), leaves what the next commit installs under that key
\* and the patches it reports for that key as they were.
DetachedWritesInert ==
  [][LET s == eng["A"]
           k == s.held.prop
           ForKey(ps) == SelectSeq(ps, LAMBDA p : p.path # <<>> /\ p.path[1] = k) IN
       (ev'.op = "kset") =>
         /\ Get(NextCommit(eng'["A"]).snapshot, k) = Get(NextCommit(s).snapshot, k)
         /\ ForKey(NextCommit(eng'["A"]).patches) = ForKey(NextCommit(s).patches)]_vars

\* C36: the fork of an engine that has the scheduler commit => commit() has
\* the default scheduler: a write through the fork's wrapper is not committed
\* by the write but left dirty with one deferred callback queued, which
\* delivers it to the fork's listener; no operation on the fork reaches the
\* listener of the source engine or changes the source engine.
ForkHasDefaultScheduler ==
  [][/\ eng'["B"].alive => ~eng'["B"].sync
     /\ (ev'.op = "fork") => (eng'["B"].out.n = 0 /\ ~eng'["B"].pendingPromise /\ eng'["B"].queue = 0)
     /\ (ev'.e = "B" /\ ev'.op = "write") =>
          /\ eng'["B"].out.n = 0
          /\ eng'["B"].isDirty /\ eng'["B"].pendingPromise /\ eng'["B"].queue = 1
     /\ (ev'.e = "B" /\ ev'.op = "micro") =>
          /\ eng'["B"].out.n = (IF ev'.pendP = <<>> THEN 0 ELSE 1)
          /\ eng'["B"].out.patches = ev'.pendP
     /\ (ev'.e = "B" /\ ev'.op # "fork" /\ ev'.op # "init") =>
          /\ eng'["A"].out.n = 0
          /\ eng'["A"] = Begin(eng["A"])]_vars

\* C36 witness: the fork of the engine with the custom scheduler has had a
\* deferred callback deliver a write to its own listener
ForkDeferredReached ==
  /\ eng["A"].sync /\ eng["B"].alive
  /\ ev.op = "micro" /\ ev.e = "B"
  /\ eng["B"].out.n = 1 /\ eng["A"].out.n = 0

\* C37: on the undo/redo page, undo() with an entry to undo takes the last
\* entry of undoStack and makes it the last of redoStack, redo() with an
\* entry to redo does the reverse, and neither changes anything else of the
\* two stacks; redo() directly after undo() brings back the snapshot undo()
\* found; a write through the wrapper leaves both stacks alone, and the
\* deferred callback changes them only by the notification it delivers.
UndoRedoMovesOne ==
  [][LET s == eng["A"]
         t == eng'["A"]
         Front(q) == SubSeq(q, 1, Len(q) - 1)
         Last(q) == q[Len(q)] IN
     /\ (ev'.op = "undo" /\ s.undoStack # <<>>) =>
          /\ t.undoStack = Front(s.undoStack)
          /\ t.redoStack = Append(s.redoStack, Last(s.undoStack))
     /\ (ev'.op = "redo" /\ s.redoStack # <<>>) =>
          /\ t.redoStack = Front(s.redoStack)
          /\ t.undoStack = Append(s.undoStack, Last(s.redoStack))
     /\ (ev.op = "undo" /\ ev.ps # <<>> /\ ev'.op = "redo") => SameVal(t.source, ev.mid)
     /\ (ev'.op = "write") => (t.undoStack = s.undoStack /\ t.redoStack = s.redoStack)
     /\ (ev'.op = "micro") =>
          IF t.out.n = 0 THEN t.undoStack = s.undoStack /\ t.redoStack = s.redoStack
          ELSE Len(t.undoStack) = Len(s.undoStack) + 1 /\ t.redoStack = <<>>]_vars

\* C38: when a commit of the store's engine (deferred, explicit or by a
\* replacement of the root) notifies, every callback
\* registered with subscribe whose unsubscribe function has not been called
\* (by the client or by the disposal of its scope) is called exactly once,
\* with the commit's two lists; a callback whose unsubscribe function has
\* been called is not called; a commit without patches and every other
\* operation call nobody.
SubscribersCalledOncePerCommit ==
  [][LET s == eng["A"]
         t == eng'["A"] IN
     /\ ev'.op \notin {"micro", "commit", "assign"} => t.calls = NoCalls
     /\ ev'.op \in {"micro", "commit", "assign"} =>
          \A c \in Callbacks :
            s.reg[c] = "all" =>
              t.calls[c] = IF c \notin s.gone /\ t.out.n = 1
                           THEN <<[patches |-> t.out.patches,
                                   inversePatches |-> t.out.inversePatches]>>
                           ELSE <<>>]_vars

\* C38 witness: in the second commit, c2 is called and the unsubscribed c1 is
\* not
UnsubscribedSkippedReached ==
  LET s == eng["A"] IN
  /\ ev.op = "micro" /\ s.out.n = 1 /\ s.draftCacheKey = 4
  /\ s.reg["c1"] = "all" /\ "c1" \in s.gone /\ s.calls["c1"] = <<>>
  /\ s.reg["c2"] = "all" /\ "c2" \notin s.gone /\ Len(s.calls["c2"]) = 1

\* C39: when a commit of the store's engine notifies, a callback registered
\* with subscribePath(p) and not unsubscribed is called once if some patch
\* has a path that starts with the keys of p, and not at all otherwise; it
\* gets exactly the patches of such paths, in their order, and a second
\* list of as many inverse patches of the commit, which holds for each patch
\* it got the inverse patch of the same path and no inverse patch of another
\* path.
PathSubscribersFiltered ==
  [][LET s == eng["A"]
         t == eng'["A"]
         Parts(p) == CASE p = "foo.a" -> <<"foo", "a">>
                      [] p = "foo.1" -> <<"foo", "1">>
                      [] p = "foo.2" -> <<"foo", "2">>
                      [] OTHER -> <<p>>
         Starts(path, q) == Len(q) <= Len(path) /\ SubSeq(path, 1, Len(q)) = q
         Keep(ps, p) == SelectSeq(ps, LAMBDA x : Starts(x.path, Parts(p))) IN
     ev'.op \in {"micro", "commit", "assign"} =>
       \A c \in Callbacks :
         s.reg[c] \in StorePaths =>
           IF c \in s.gone \/ t.out.n = 0 \/ Keep(t.out.patches, s.reg[c]) = <<>>
           THEN t.calls[c] = <<>>
           ELSE /\ Len(t.calls[c]) = 1
                /\ t.calls[c][1].patches = Keep(t.out.patches, s.reg[c])
                /\ Len(t.calls[c][1].inversePatches) = Len(t.calls[c][1].patches)
                /\ \A k \in 1..Len(t.calls[c][1].patches) :
                     /\ \E i \in 1..Len(t.out.inversePatches) :
                          t.out.inversePatches[i] = t.calls[c][1].inversePatches[k]
                     /\ \E i \in 1..Len(t.calls[c][1].patches) :
                          t.calls[c][1].inversePatches[i].path = t.calls[c][1].patches[k].path
                     /\ \E i \in 1..Len(t.calls[c][1].patches) :
                          t.calls[c][1].inversePatches[k].path = t.calls[c][1].patches[i].path]_vars
====
